---------------------------- MODULE Spec2Model ----------------------------
(***************************************************************************)
(* A model of go-ubasic: the tokenizer (package lex), the recursive-descent *)
(* parser (package parse) and the tree-walking interpreter with its batch  *)
(* and REPL drivers (package interp).                                      *)
(*                                                                         *)
(* Conventions.                                                            *)
(*  - A source text is a sequence of runes; a rune is a one-character      *)
(*    string (the non-ASCII digit U+0663 is the atom "u0663", the zero     *)
(*    rune of an uninitialised Tokenizer is "NUL", eof (-1) is "EOF").     *)
(*    Every rune is one element wide, so offsets count runes.              *)
(*  - Go's int64 is modelled as a two's-complement integer of IntBits      *)
(*    bits: MinInt .. MaxInt, with wrap-around arithmetic (Wrap).          *)
(*  - A Go loop or recursion that never ends is reported by the operator   *)
(*    that models it as an outcome (hang / st = "hang" / "overflow"); the  *)
(*    operator recognises it where an iteration leaves the state it reads  *)
(*    unchanged.                                                           *)
(*  - scanner.Position is kept as its Offset only.                        *)
(***************************************************************************)
EXTENDS Integers, Sequences, FiniteSets, TLC

VARIABLES
    tz,       \* the Tokenizer driven directly (lexer specification)
    toks,     \* the (pos, tok, lit) triples its Next has returned so far
    hung,     \* TRUE once a call has been entered that never returns
    parser,   \* the Parser driven line by line (parser specification)
    rets,     \* what its Line calls have returned so far: [at, st, v], at the
              \* offset of the token the call started on

    interp,   \* the Interpreter of the driver (batch or REPL), with its Mach
    phase,    \* where the driver is: "idle", "parse", "run" (the loops of Run),
              \* "read", "replRun" (the loops of Repl and replRun), "done" (the
              \* driver has returned), "crashed" (the process died), "stuck" (a
              \* call that never returns)
    rerr,     \* the error Run returned or the REPL last reported; Nil for none
    last      \* the last statement evaluated: [leaf, err, pre, op], pre the
              \* Interpreter before the driver's step, op "step" for a Step
              \* and "enter" for a line entered in the REPL

lexvars == <<tz, toks, hung>>
parsevars == <<parser, rets>>
runvars == <<interp, phase, rerr, last>>

vars == <<tz, toks, hung, parser, rets, interp, phase, rerr, last>>

----------------------------------------------------------------------------
(* Bounds *)

\* width of the machine integer standing for int64
IntBits == 4
\* longest source text given to the tokenizer on its own
MaxSrcLen == 4
\* most physical lines of a source given to the parser on its own
MaxParseLines == 4
\* most physical lines of a source given to the batch driver
MaxRunLines == 4
\* the drivers stop stepping once this many runes have been written
MaxOut == 8
\* the drivers stop stepping once a stack is this deep
MaxStack == 3

\* the labels a line entered in the REPL may carry: 1..MaxReplLabel
MaxReplLabel == 3

----------------------------------------------------------------------------
(* lex: runes *)

eof == "EOF"
NUL == "NUL"
ArabicThree == "u0663"

AsciiDigits == {"0", "1", "2", "3", "4", "5", "6", "7", "8", "9"}
UpperLetters == {"A", "B", "C", "D", "E", "F", "G", "H", "I", "J", "K", "L", "M",
                 "N", "O", "P", "Q", "R", "S", "T", "U", "V", "W", "X", "Y", "Z"}
LowerLetters == {"a", "b", "c", "d", "e", "f", "g", "h", "i", "j", "k", "l", "m",
                 "n", "o", "p", "q", "r", "s", "t", "u", "v", "w", "x", "y", "z"}

\* unicode.IsLetter or '_'
isLetter(ch) == ch = "_" \/ ch \in UpperLetters \/ ch \in LowerLetters

\* '0' <= ch && ch <= '9'
isDigit(ch) == ch \in AsciiDigits

\* unicode.IsDigit: the ASCII digits and the other digits of category Nd
unicodeIsDigit(ch) == ch \in AsciiDigits \/ ch = ArabicThree

\* strings.ToLower on one rune
toLowerRune(ch) ==
    CASE ch = "A" -> "a" [] ch = "B" -> "b" [] ch = "C" -> "c" [] ch = "D" -> "d"
      [] ch = "E" -> "e" [] ch = "F" -> "f" [] ch = "G" -> "g" [] ch = "H" -> "h"
      [] ch = "I" -> "i" [] ch = "J" -> "j" [] ch = "K" -> "k" [] ch = "L" -> "l"
      [] ch = "M" -> "m" [] ch = "N" -> "n" [] ch = "O" -> "o" [] ch = "P" -> "p"
      [] ch = "Q" -> "q" [] ch = "R" -> "r" [] ch = "S" -> "s" [] ch = "T" -> "t"
      [] ch = "U" -> "u" [] ch = "V" -> "v" [] ch = "W" -> "w" [] ch = "X" -> "x"
      [] ch = "Y" -> "y" [] ch = "Z" -> "z" [] OTHER -> ch

ToLower(s) == [i \in 1..Len(s) |-> toLowerRune(s[i])]

----------------------------------------------------------------------------
(* lex: Tokenizer *)

\* Tokenizer.next: decode the next rune into ch, or eof at the end
tnext(t) ==
    IF t.rdOffset < Len(t.src)
    THEN [t EXCEPT !.offset = t.rdOffset,
                   !.ch = t.src[t.rdOffset + 1],
                   !.rdOffset = t.rdOffset + 1]
    ELSE [t EXCEPT !.offset = Len(t.src), !.ch = eof]

\* the zero Tokenizer (var lexer lex.Tokenizer)
ZeroTokenizer ==
    [conf |-> [ScanComments |-> FALSE], src |-> <<>>, ch |-> NUL,
     offset |-> 0, rdOffset |-> 0]

\* Tokenizer.Init
LexInit(conf, src) ==
    tnext([conf |-> conf, src |-> src, ch |-> NUL, offset |-> 0, rdOffset |-> 0])

RECURSIVE skipws(_)
skipws(t) == IF t.ch = "\t" \/ t.ch = " " THEN skipws(tnext(t)) ELSE t

RECURSIVE identLoop(_)
identLoop(t) == IF isLetter(t.ch) \/ isDigit(t.ch) THEN identLoop(tnext(t)) ELSE t

\* Tokenizer.ident
ident(t) ==
    LET u == identLoop(t)
    IN  [t |-> u, lit |-> SubSeq(t.src, t.offset + 1, u.offset)]

lookupIdent(id) ==
    LET s == ToLower(id)
    IN  CASE s = <<"l", "e", "t">> -> "LET"
          [] s = <<"p", "r", "i", "n", "t">> -> "PRINT"
          [] s = <<"i", "f">> -> "IF"
          [] s = <<"t", "h", "e", "n">> -> "THEN"
          [] s = <<"e", "l", "s", "e">> -> "ELSE"
          [] s = <<"f", "o", "r">> -> "FOR"
          [] s = <<"t", "o">> -> "TO"
          [] s = <<"n", "e", "x", "t">> -> "NEXT"
          [] s = <<"g", "o", "t", "o">> -> "GOTO"
          [] s = <<"g", "o", "s", "u", "b">> -> "GOSUB"
          [] s = <<"r", "e", "t", "u", "r", "n">> -> "RETURN"
          [] s = <<"c", "a", "l", "l">> -> "CALL"
          [] s = <<"r", "e", "m">> -> "REM"
          [] s = <<"p", "e", "e", "k">> -> "PEEK"
          [] s = <<"p", "o", "k", "e">> -> "POKE"
          [] s = <<"e", "n", "d">> -> "END"
          [] OTHER -> "VARIABLE"

RECURSIVE numberLoop(_)
numberLoop(t) == IF isDigit(t.ch) THEN numberLoop(tnext(t)) ELSE t

\* Tokenizer.number
number(t) ==
    LET u == numberLoop(t)
    IN  [t |-> u, tok |-> "NUMBER", lit |-> SubSeq(t.src, t.offset + 1, u.offset)]

\* Tokenizer.string: the loop starts with t.next(), so t is the state after it
RECURSIVE stringLoop(_, _)
stringLoop(t, offs) ==
    IF t.ch = eof \/ t.ch = "\r" \/ t.ch = "\n"
    THEN [t |-> t, tok |-> "ERROR", lit |-> <<"unterminated string">>]
    ELSE IF t.ch = "\""
         THEN LET u == tnext(t)
              IN  [t |-> u, tok |-> "STRING", lit |-> SubSeq(t.src, offs + 1, u.offset)]
         ELSE stringLoop(tnext(t), offs)

string(t) == stringLoop(tnext(t), t.offset)

\* Tokenizer.comment: for t.ch != '\n' { t.next() }; t.next().  At the end of
\* the source t.next() leaves the Tokenizer as it is (ch stays eof), so the
\* loop never ends: hang.
RECURSIVE commentLoop(_)
commentLoop(t) ==
    IF t.ch = "\n" THEN [t |-> t, hang |-> FALSE]
    ELSE IF tnext(t) = t THEN [t |-> t, hang |-> TRUE]
    ELSE commentLoop(tnext(t))

comment(t) ==
    LET l == commentLoop(t)
        u == tnext(l.t)
    IN  IF l.hang THEN [t |-> l.t, lit |-> <<>>, hang |-> TRUE]
        ELSE [t |-> u, lit |-> SubSeq(t.src, t.offset + 1, u.offset), hang |-> FALSE]

\* the switch on the single rune ch read by the default case of Next; next is
\* the rune after it.  A lone '!' leaves tok at the zero Token.
punct(ch, next) ==
    CASE ch = "\n" \/ ch = "\r" -> [tok |-> "CR", lit |-> <<ch>>, two |-> FALSE]
      [] ch = "," -> [tok |-> "COMMA", lit |-> <<ch>>, two |-> FALSE]
      [] ch = ";" -> [tok |-> "SEMICOLON", lit |-> <<ch>>, two |-> FALSE]
      [] ch = "<" -> IF next = "=" THEN [tok |-> "LEQ", lit |-> <<"<", "=">>, two |-> TRUE]
                     ELSE [tok |-> "LT", lit |-> <<ch>>, two |-> FALSE]
      [] ch = ">" -> IF next = "=" THEN [tok |-> "GEQ", lit |-> <<">", "=">>, two |-> TRUE]
                     ELSE [tok |-> "GT", lit |-> <<ch>>, two |-> FALSE]
      [] ch = "!" -> IF next = "=" THEN [tok |-> "NEQ", lit |-> <<"!", "=">>, two |-> TRUE]
                     ELSE [tok |-> "ZEROTOKEN", lit |-> <<ch>>, two |-> FALSE]
      [] ch = "=" -> [tok |-> "EQ", lit |-> <<ch>>, two |-> FALSE]
      [] ch = "(" -> [tok |-> "LPAREN", lit |-> <<ch>>, two |-> FALSE]
      [] ch = ")" -> [tok |-> "RPAREN", lit |-> <<ch>>, two |-> FALSE]
      [] ch = "^" -> [tok |-> "XOR", lit |-> <<ch>>, two |-> FALSE]
      [] ch = "&" -> [tok |-> "AND", lit |-> <<ch>>, two |-> FALSE]
      [] ch = "|" -> [tok |-> "OR", lit |-> <<ch>>, two |-> FALSE]
      [] ch = "+" -> [tok |-> "PLUS", lit |-> <<ch>>, two |-> FALSE]
      [] ch = "-" -> [tok |-> "MINUS", lit |-> <<ch>>, two |-> FALSE]
      [] ch = "*" -> [tok |-> "ASTR", lit |-> <<ch>>, two |-> FALSE]
      [] ch = "/" -> [tok |-> "SLASH", lit |-> <<ch>>, two |-> FALSE]
      [] ch = "%" -> [tok |-> "MOD", lit |-> <<ch>>, two |-> FALSE]
      [] ch = "#" -> [tok |-> "HASH", lit |-> <<ch>>, two |-> FALSE]
      [] OTHER -> [tok |-> "ERROR", lit |-> <<"unknown character", ch>>, two |-> FALSE]

\* Tokenizer.Next: [t: the Tokenizer afterwards, pos, tok, lit, hang]
RECURSIVE Next(_)
Next(t0) ==
    LET t == skipws(t0)
        pos == t.offset
        ch == t.ch
    IN  CASE isLetter(ch) ->
               LET i == ident(t)
                   tok == lookupIdent(i.lit)
                   c == comment(i.t)
               IN  IF tok # "REM"
                   THEN [t |-> i.t, pos |-> pos, tok |-> tok, lit |-> i.lit, hang |-> FALSE]
                   ELSE IF c.hang
                   THEN [t |-> c.t, pos |-> pos, tok |-> tok, lit |-> i.lit, hang |-> TRUE]
                   ELSE IF ~t.conf.ScanComments
                   THEN Next(c.t)
                   ELSE [t |-> c.t, pos |-> pos, tok |-> tok, lit |-> i.lit \o c.lit,
                         hang |-> FALSE]
          [] unicodeIsDigit(ch) ->
               LET n == number(t)
               IN  [t |-> n.t, pos |-> pos, tok |-> n.tok, lit |-> n.lit, hang |-> FALSE]
          [] ch = "\"" ->
               LET s == string(t)
               IN  [t |-> s.t, pos |-> pos, tok |-> s.tok, lit |-> s.lit, hang |-> FALSE]
          [] ch = eof ->
               [t |-> t, pos |-> pos, tok |-> "EOF", lit |-> <<>>, hang |-> FALSE]
          [] OTHER ->
               LET u == tnext(t)
                   p == punct(ch, u.ch)
               IN  [t |-> IF p.two THEN tnext(u) ELSE u, pos |-> pos, tok |-> p.tok,
                    lit |-> p.lit, hang |-> FALSE]

----------------------------------------------------------------------------
(* Machine integers *)

MaxInt == 2 ^ (IntBits - 1) - 1
MinInt == 0 - 2 ^ (IntBits - 1)
Int64 == MinInt .. MaxInt

\* the two's-complement value of x in IntBits bits
Wrap(x) == ((x - MinInt) % (2 ^ IntBits)) + MinInt

----------------------------------------------------------------------------
(* parse: Parser *)

Nil == [type |-> "Nil"]

Tok(pos, typ, text) == [Pos |-> pos, Type |-> typ, Text |-> text]

\* the zero ast.Token
ZeroTok == Tok(0, "ZEROTOKEN", <<>>)

\* Parser methods call one another through Call (defined after the last of
\* them), which selects the method by its name
RECURSIVE Call(_, _)

\* what a parsing method hands back: the Parser afterwards, its value, and how
\* it ended: "ok", "err" (a panic with an *ast.Error, after synch), "hang"
\* (a loop that never ends) or "overflow" (unbounded recursion)
Ret(p, v, st) == [p |-> p, v |-> v, st |-> st]

\* the loop of Parser.next: r is what p.lex.Next() just returned; a REM token
\* asks for another
RECURSIVE nextLoop(_, _)
nextLoop(p, r) ==
    IF r.hang THEN Ret([p EXCEPT !.lex = r.t], Nil, "hang")
    ELSE IF r.tok = "REM" THEN nextLoop(p, Next(r.t))
    ELSE Ret([p EXCEPT !.lex = r.t, !.tok = Tok(r.pos, r.tok, r.lit)], Nil, "ok")

\* Parser.next
pnext(p) ==
    IF Len(p.look) > 0
    THEN Ret([p EXCEPT !.tok = p.look[1], !.look = Tail(p.look)], Nil, "ok")
    ELSE nextLoop(p, Next(p.lex))

\* Parser.synch.  When p.next() leaves the whole Parser as it was (the
\* Tokenizer returns the same token without consuming), the loop never ends.
synch(p) ==
    LET n == Call("next", <<p>>)
    IN  IF n.st # "ok" THEN n
        ELSE IF n.p.tok.Type = "CR" \/ n.p.tok.Type = "EOF" THEN Call("next", <<n.p>>)
        ELSE IF n.p = p THEN Ret(p, Nil, "hang")
        ELSE Call("synch", <<n.p>>)

\* Parser.errf: build the error at the current token, synch, panic
errf(p, msg) ==
    LET s == Call("synch", <<p>>)
    IN  IF s.st # "ok" THEN s
        ELSE Ret(s.p, [type |-> "Error", Pos |-> p.tok.Pos, Err |-> msg], "err")

\* Parser.accept
accept(p, typ) ==
    IF p.tok.Type # typ THEN Call("errf", <<p, "expected token">>)
    ELSE LET n == Call("next", <<p>>)
         IN  IF n.st # "ok" THEN n ELSE Ret(n.p, p.tok, "ok")

digitVal(ch) ==
    CASE ch = "0" -> 0 [] ch = "1" -> 1 [] ch = "2" -> 2 [] ch = "3" -> 3 [] ch = "4" -> 4
      [] ch = "5" -> 5 [] ch = "6" -> 6 [] ch = "7" -> 7 [] ch = "8" -> 8 [] ch = "9" -> 9

\* the value of the digits s in the given base, saturating above MaxInt
RECURSIVE digitsValue(_, _, _)
digitsValue(s, base, acc) ==
    IF s = <<>> THEN acc
    ELSE IF acc > MaxInt THEN acc
    ELSE digitsValue(Tail(s), base, acc * base + digitVal(Head(s)))

\* strconv.ParseInt(text, 0, 64) on a text of ASCII digits: empty is a syntax
\* error; a leading 0 selects base 8; a value above MaxInt is a range error
ParseInt(text) ==
    IF text = <<>> THEN [ok |-> FALSE, n |-> 0]
    ELSE IF Len(text) > 1 /\ text[1] = "0"
    THEN IF \E i \in 2..Len(text) : text[i] \in {"8", "9"}
         THEN [ok |-> FALSE, n |-> 0]
         ELSE LET v == digitsValue(Tail(text), 8, 0)
              IN  IF v > MaxInt THEN [ok |-> FALSE, n |-> MaxInt] ELSE [ok |-> TRUE, n |-> v]
    ELSE LET v == digitsValue(text, 10, 0)
         IN  IF v > MaxInt THEN [ok |-> FALSE, n |-> MaxInt] ELSE [ok |-> TRUE, n |-> v]

\* Parser.acceptNumber
acceptNumber(p) ==
    LET a == Call("accept", <<p, "NUMBER">>)
        n == ParseInt(a.v.Text)
    IN  IF a.st # "ok" THEN a
        ELSE IF ~n.ok THEN Call("errf", <<a.p, "invalid number">>)
        ELSE Ret(a.p, [type |-> "Number", Pos |-> a.v.Pos, Value |-> n.n], "ok")

\* Parser.acceptVariable
acceptVariable(p) ==
    LET a == Call("accept", <<p, "VARIABLE">>)
    IN  IF a.st # "ok" THEN a
        ELSE Ret(a.p, [type |-> "Variable", Pos |-> a.v.Pos, Name |-> a.v.Text], "ok")

\* Parser.acceptCR
acceptCR(p) ==
    IF p.tok.Type = "CR" THEN Call("accept", <<p, "CR">>)
    ELSE IF p.tok.Type # "EOF" THEN Call("errf", <<p, "expected newline">>)
    ELSE Ret(p, Nil, "ok")

\* Parser.skipcr
skipcr(p) ==
    IF p.tok.Type = "CR"
    THEN LET n == Call("next", <<p>>) IN IF n.st # "ok" THEN n ELSE Call("skipcr", <<n.p>>)
    ELSE Ret(p, Nil, "ok")

BinaryExpr(op, x, y) == [type |-> "Binary", Op |-> op, X |-> x, Y |-> y]

\* Parser.factor.  In the LPAREN case p.expr() is called with '(' still the
\* current token, and expr -> term -> factor comes back here: the recursion
\* never ends.
factor(p) ==
    CASE p.tok.Type = "NUMBER" -> Call("acceptNumber", <<p>>)
      [] p.tok.Type = "LPAREN" -> Ret(p, Nil, "overflow")
      [] OTHER -> Call("acceptVariable", <<p>>)

\* the loop of Parser.term, f1 parsed so far
RECURSIVE termLoop(_, _)
termLoop(p, f1) ==
    IF p.tok.Type \in {"ASTR", "SLASH", "MOD"}
    THEN LET n == Call("next", <<p>>)
             f2 == Call("factor", <<n.p>>)
         IN  IF n.st # "ok" THEN n
             ELSE IF f2.st # "ok" THEN f2
             ELSE termLoop(f2.p, BinaryExpr(p.tok, f1, f2.v))
    ELSE Ret(p, f1, "ok")

\* Parser.term
term(p) ==
    LET f1 == Call("factor", <<p>>)
    IN  IF f1.st # "ok" THEN f1 ELSE termLoop(f1.p, f1.v)

\* the loop of Parser.expr, t1 parsed so far
RECURSIVE exprLoop(_, _)
exprLoop(p, t1) ==
    IF p.tok.Type \in {"PLUS", "MINUS", "AND", "OR"}
    THEN LET n == Call("next", <<p>>)
             t2 == Call("term", <<n.p>>)
         IN  IF n.st # "ok" THEN n
             ELSE IF t2.st # "ok" THEN t2
             ELSE exprLoop(t2.p, BinaryExpr(p.tok, t1, t2.v))
    ELSE Ret(p, t1, "ok")

\* Parser.expr
expr(p) ==
    LET t1 == Call("term", <<p>>)
    IN  IF t1.st # "ok" THEN t1 ELSE exprLoop(t1.p, t1.v)

\* the loop of Parser.relation, r1 parsed so far
RECURSIVE relationLoop(_, _)
relationLoop(p, r1) ==
    IF p.tok.Type \in {"LT", "GT", "LEQ", "GEQ", "NEQ", "EQ"}
    THEN LET n == Call("next", <<p>>)
             r2 == Call("expr", <<n.p>>)
         IN  IF n.st # "ok" THEN n
             ELSE IF r2.st # "ok" THEN r2
             ELSE relationLoop(r2.p, BinaryExpr(p.tok, r1, r2.v))
    ELSE Ret(p, r1, "ok")

\* Parser.relation
relation(p) ==
    LET r1 == Call("expr", <<p>>)
    IN  IF r1.st # "ok" THEN r1 ELSE relationLoop(r1.p, r1.v)

\* strconv.Unquote of a "-delimited token without escapes: the text between
\* the quotes
Unquote(text) == SubSeq(text, 2, Len(text) - 1)

\* the loop of Parser.print, args parsed so far
RECURSIVE printLoop(_, _)
printLoop(p, args) ==
    CASE p.tok.Type = "STRING" ->
           LET n == Call("next", <<p>>)
           IN  IF n.st # "ok" THEN n
               ELSE printLoop(n.p, Append(args, [type |-> "String", Pos |-> p.tok.Pos,
                                                 Value |-> Unquote(p.tok.Text)]))
      [] p.tok.Type \in {"COMMA", "SEMICOLON"} ->
           LET n == Call("next", <<p>>)
           IN  IF n.st # "ok" THEN n
               ELSE printLoop(n.p, Append(args, [type |-> "Punct", Pos |-> p.tok.Pos,
                                                 Type |-> p.tok.Type]))
      [] p.tok.Type \in {"VARIABLE", "NUMBER"} ->
           LET e == Call("expr", <<p>>)
           IN  IF e.st # "ok" THEN e ELSE printLoop(e.p, Append(args, e.v))
      [] p.tok.Type \in {"CR", "EOF"} -> Ret(p, args, "ok")
      [] OTHER -> Call("errf", <<p, "unknown print type">>)

\* Parser.print
print(p) ==
    LET a == Call("accept", <<p, "PRINT">>)
        l == printLoop(a.p, <<>>)
    IN  IF a.st # "ok" THEN a
        ELSE IF l.st # "ok" THEN l
        ELSE Ret(l.p, [type |-> "Print", Label |-> p.label, Args |-> l.v], "ok")

\* Parser.goto_
goto_(p) ==
    LET a == Call("accept", <<p, "GOTO">>)
        n == Call("acceptNumber", <<a.p>>)
    IN  IF a.st # "ok" THEN a
        ELSE IF n.st # "ok" THEN n
        ELSE Ret(n.p, [type |-> "Goto", Label |-> p.label, Location |-> n.v], "ok")

\* Parser.gosub
gosub(p) ==
    LET a == Call("accept", <<p, "GOSUB">>)
        n == Call("acceptNumber", <<a.p>>)
    IN  IF a.st # "ok" THEN a
        ELSE IF n.st # "ok" THEN n
        ELSE Ret(n.p, [type |-> "Gosub", Label |-> p.label, Location |-> n.v], "ok")

\* Parser.return_
return_(p) ==
    LET a == Call("accept", <<p, "RETURN">>)
    IN  IF a.st # "ok" THEN a
        ELSE Ret(a.p, [type |-> "Return", Label |-> p.label], "ok")

\* Parser.end
end(p) ==
    LET a == Call("accept", <<p, "END">>)
    IN  IF a.st # "ok" THEN a
        ELSE Ret(a.p, [type |-> "End", Label |-> p.label], "ok")

\* Parser.next_
next_(p) ==
    LET a == Call("accept", <<p, "NEXT">>)
        v == Call("acceptVariable", <<a.p>>)
    IN  IF a.st # "ok" THEN a
        ELSE IF v.st # "ok" THEN v
        ELSE Ret(v.p, [type |-> "Next", Label |-> p.label, Var |-> v.v], "ok")

\* Parser.for_
for_(p) ==
    LET a == Call("accept", <<p, "FOR">>)
        v == Call("acceptVariable", <<a.p>>)
        q == Call("accept", <<v.p, "EQ">>)
        s == Call("expr", <<q.p>>)
        t == Call("accept", <<s.p, "TO">>)
        e == Call("expr", <<t.p>>)
    IN  IF a.st # "ok" THEN a
        ELSE IF v.st # "ok" THEN v
        ELSE IF q.st # "ok" THEN q
        ELSE IF s.st # "ok" THEN s
        ELSE IF t.st # "ok" THEN t
        ELSE IF e.st # "ok" THEN e
        ELSE Ret(e.p, [type |-> "For", Label |-> p.label, Var |-> v.v,
                       Start |-> s.v, End |-> e.v], "ok")

\* Parser.peek
peek(p) ==
    LET a == Call("accept", <<p, "PEEK">>)
        x == Call("expr", <<a.p>>)
        c == Call("accept", <<x.p, "COMMA">>)
        v == Call("acceptVariable", <<c.p>>)
    IN  IF a.st # "ok" THEN a
        ELSE IF x.st # "ok" THEN x
        ELSE IF c.st # "ok" THEN c
        ELSE IF v.st # "ok" THEN v
        ELSE Ret(v.p, [type |-> "Peek", Label |-> p.label, Addr |-> x.v, Var |-> v.v], "ok")

\* Parser.poke
poke(p) ==
    LET a == Call("accept", <<p, "POKE">>)
        x == Call("expr", <<a.p>>)
        c == Call("accept", <<x.p, "COMMA">>)
        v == Call("expr", <<c.p>>)
    IN  IF a.st # "ok" THEN a
        ELSE IF x.st # "ok" THEN x
        ELSE IF c.st # "ok" THEN c
        ELSE IF v.st # "ok" THEN v
        ELSE Ret(v.p, [type |-> "Poke", Label |-> p.label, Addr |-> x.v, Value |-> v.v], "ok")

\* Parser.let_
let_(p) ==
    LET v == Call("acceptVariable", <<p>>)
        q == Call("accept", <<v.p, "EQ">>)
        x == Call("expr", <<q.p>>)
    IN  IF v.st # "ok" THEN v
        ELSE IF q.st # "ok" THEN q
        ELSE IF x.st # "ok" THEN x
        ELSE Ret(x.p, [type |-> "Let", Label |-> p.label, Var |-> v.v, Value |-> x.v], "ok")

\* ifElse without the restore: the tokens read ahead stay consumed
ifElseKeepsLookahead(p, s) ==
    LET num == Call("acceptNumber", <<p>>)
        el == Call("accept", <<num.p, "ELSE">>)
        cr == Call("acceptCR", <<el.p>>)
        body == Call("stmt", <<cr.p>>)
    IN  IF num.st # "ok" THEN num
        ELSE IF num.p.tok.Type = "ELSE"
        THEN IF el.st # "ok" THEN el
             ELSE IF cr.st # "ok" THEN cr
             ELSE IF body.st # "ok" THEN body
             ELSE Ret(body.p,
                      [s EXCEPT !.Else = [type |-> "Else", Label |-> num.v, Body |-> body.v]],
                      "ok")
        ELSE Ret(num.p, s, "ok")

\* the dangling-else lookahead of Parser.if_, after the body: s is the IfStmt
\* so far
ifElse(p, s) ==
    LET tok == p.tok
        num == Call("acceptNumber", <<p>>)
        el == Call("accept", <<num.p, "ELSE">>)
        cr == Call("acceptCR", <<el.p>>)
        body == Call("stmt", <<cr.p>>)
    IN  IF num.st # "ok" THEN num
        ELSE IF num.p.tok.Type = "ELSE"
        THEN IF el.st # "ok" THEN el
             ELSE IF cr.st # "ok" THEN cr
             ELSE IF body.st # "ok" THEN body
             ELSE Ret(body.p,
                      [s EXCEPT !.Else = [type |-> "Else", Label |-> num.v, Body |-> body.v]],
                      "ok")
        ELSE Ret([num.p EXCEPT !.look = <<num.p.tok>>, !.tok = tok], s, "ok")

\* Parser.if_
if_(p) ==
    LET a == Call("accept", <<p, "IF">>)
        c == Call("relation", <<a.p>>)
        t == Call("accept", <<c.p, "THEN">>)
        cr == Call("acceptCR", <<t.p>>)
        body == Call("stmt", <<cr.p>>)
    IN  IF a.st # "ok" THEN a
        ELSE IF c.st # "ok" THEN c
        ELSE IF t.st # "ok" THEN t
        ELSE IF cr.st # "ok" THEN cr
        ELSE IF body.st # "ok" THEN body
        ELSE Call("ifElse", <<body.p, [type |-> "If", Label |-> p.label, Cond |-> c.v,
                             Body |-> body.v, Else |-> Nil]>>)

\* the switch of Parser.stmt on the token after the label
stmtSwitch(p) ==
    CASE p.tok.Type = "PRINT" -> Call("print", <<p>>)
      [] p.tok.Type = "IF" -> Call("if_", <<p>>)
      [] p.tok.Type = "GOTO" -> Call("goto_", <<p>>)
      [] p.tok.Type = "GOSUB" -> Call("gosub", <<p>>)
      [] p.tok.Type = "RETURN" -> Call("return_", <<p>>)
      [] p.tok.Type = "FOR" -> Call("for_", <<p>>)
      [] p.tok.Type = "PEEK" -> Call("peek", <<p>>)
      [] p.tok.Type = "POKE" -> Call("poke", <<p>>)
      [] p.tok.Type = "NEXT" -> Call("next_", <<p>>)
      [] p.tok.Type = "END" -> Call("end", <<p>>)
      [] p.tok.Type = "LET" ->
           LET a == Call("accept", <<p, "LET">>) IN IF a.st # "ok" THEN a ELSE Call("let_", <<a.p>>)
      [] p.tok.Type = "VARIABLE" -> Call("let_", <<p>>)
      [] OTHER -> Call("errf", <<p, "unsupported statement">>)

\* Parser.stmt
stmt(p) ==
    LET k == Call("skipcr", <<p>>)
        n == Call("acceptNumber", <<k.p>>)
        isIf == n.p.tok.Type = "IF"
        s == Call("stmtSwitch", <<[n.p EXCEPT !.label = n.v]>>)
        cr == Call("acceptCR", <<s.p>>)
    IN  IF k.st # "ok" THEN k
        ELSE IF n.st # "ok" THEN n
        ELSE IF s.st # "ok" THEN s
        ELSE IF isIf THEN s
        ELSE IF cr.st # "ok" THEN cr
        ELSE Ret(cr.p, s.v, "ok")

\* Parser.Line: st is "ok" (v the statement), "eof" (io.EOF), "err" (v the
\* error recovered from the panic), "hang" or "overflow" (the call does not
\* return: a stack overflow is not a panic that recover() sees)
Line(p) ==
    CASE p.tok.Type = "EOF" -> Ret(p, Nil, "eof")
      [] p.tok.Type = "ERROR" -> Call("errf", <<p, p.tok.Text>>)
      [] OTHER -> Call("stmt", <<p>>)

\* the method m of the Parser a[1], with the further arguments a[2], ...
Call(m, a) ==
    CASE m = "next" -> pnext(a[1])
      [] m = "synch" -> synch(a[1])
      [] m = "errf" -> errf(a[1], a[2])
      [] m = "accept" -> accept(a[1], a[2])
      [] m = "acceptNumber" -> acceptNumber(a[1])
      [] m = "acceptVariable" -> acceptVariable(a[1])
      [] m = "acceptCR" -> acceptCR(a[1])
      [] m = "skipcr" -> skipcr(a[1])
      [] m = "factor" -> factor(a[1])
      [] m = "term" -> term(a[1])
      [] m = "expr" -> expr(a[1])
      [] m = "relation" -> relation(a[1])
      [] m = "print" -> print(a[1])
      [] m = "goto_" -> goto_(a[1])
      [] m = "gosub" -> gosub(a[1])
      [] m = "return_" -> return_(a[1])
      [] m = "end" -> end(a[1])
      [] m = "next_" -> next_(a[1])
      [] m = "for_" -> for_(a[1])
      [] m = "peek" -> peek(a[1])
      [] m = "poke" -> poke(a[1])
      [] m = "let_" -> let_(a[1])
      [] m = "ifElse" -> ifElse(a[1], a[2])
      [] m = "if_" -> if_(a[1])
      [] m = "stmtSwitch" -> stmtSwitch(a[1])
      [] m = "stmt" -> stmt(a[1])
      [] m = "Line" -> Line(a[1])

\* parse.NewParser on a Tokenizer
NewParser(t) ==
    Call("next", <<[lex |-> t, look |-> <<>>, tok |-> ZeroTok, label |-> Nil]>>)

\* Parser.Reset
ParserReset(p) == Call("next", <<[p EXCEPT !.look = <<>>, !.label = Nil]>>)

----------------------------------------------------------------------------
(* interp: maps, integers, output *)

\* the empty Go map
EmptyMap == [k \in {} |-> 0]

\* m[k] = v
MapPut(m, k, v) == [x \in DOMAIN m \cup {k} |-> IF x = k THEN v ELSE m[x]]

\* m[k] read without the ok result: the zero value when k is absent
MapGet(m, k) == IF k \in DOMAIN m THEN m[k] ELSE 0

Abs(x) == IF x < 0 THEN 0 - x ELSE x

\* Go's l / r for r # 0: the quotient truncated toward zero, in IntBits bits
TruncDiv(l, r) ==
    LET q == Abs(l) \div Abs(r)
    IN  Wrap(IF (l < 0) = (r < 0) THEN q ELSE 0 - q)

\* Go's l % r for r # 0: the remainder with the sign of l
TruncMod(l, r) ==
    LET m == Abs(l) % Abs(r)
    IN  IF l < 0 THEN 0 - m ELSE m

\* bit i (from 0) of the two's-complement pattern of x
Bit(x, i) == ((x - MinInt * 2) \div (2 ^ i)) % 2

RECURSIVE bitsValue(_, _, _, _)
bitsValue(l, r, i, isAnd) ==
    IF i = IntBits THEN 0
    ELSE (IF isAnd THEN Bit(l, i) * Bit(r, i)
          ELSE IF Bit(l, i) + Bit(r, i) > 0 THEN 1 ELSE 0) * (2 ^ i)
         + bitsValue(l, r, i + 1, isAnd)

\* l & r and l | r
BitAnd(l, r) == Wrap(bitsValue(l, r, 0, TRUE))
BitOr(l, r) == Wrap(bitsValue(l, r, 0, FALSE))

\* the decimal digit for 0..9
digitRune(n) ==
    CASE n = 0 -> "0" [] n = 1 -> "1" [] n = 2 -> "2" [] n = 3 -> "3" [] n = 4 -> "4"
      [] n = 5 -> "5" [] n = 6 -> "6" [] n = 7 -> "7" [] n = 8 -> "8" [] n = 9 -> "9"

RECURSIVE natDigits(_)
natDigits(n) == IF n < 10 THEN <<digitRune(n)>> ELSE Append(natDigits(n \div 10), digitRune(n % 10))

\* fmt.Fprint of an int64: its decimal text
FormatInt(n) == IF n < 0 THEN <<"-">> \o natDigits(0 - n) ELSE natDigits(n)

truth(x) == IF x THEN 1 ELSE 0

----------------------------------------------------------------------------
(* interp: Interpreter *)

\* a panic value: errf panics with the error fmt.Errorf builds, an integer
\* division by zero with a runtime.Error; both implement error
Panic(kind, label, what) == [type |-> "Panic", kind |-> kind, Label |-> label, what |-> what]

\* Interpreter.expr on the bindings V: [n, panic]; the operands are evaluated
\* left first
RECURSIVE I_expr(_, _)
I_expr(V, e) ==
    CASE e.type = "Binary" ->
           LET l == I_expr(V, e.X)
               r == I_expr(V, e.Y)
               op == e.Op.Type
           IN  IF l.panic # Nil THEN l
               ELSE IF r.panic # Nil THEN r
               ELSE CASE op = "PLUS" -> [n |-> Wrap(l.n + r.n), panic |-> Nil]
                      [] op = "MINUS" -> [n |-> Wrap(l.n - r.n), panic |-> Nil]
                      [] op = "ASTR" -> [n |-> Wrap(l.n * r.n), panic |-> Nil]
                      [] op = "SLASH" ->
                           IF r.n = 0
                           THEN [n |-> 0, panic |-> Panic("runtime", e.Op.Pos, <<"divide">>)]
                           ELSE [n |-> TruncDiv(l.n, r.n), panic |-> Nil]
                      [] op = "MOD" ->
                           IF r.n = 0
                           THEN [n |-> 0, panic |-> Panic("runtime", e.Op.Pos, <<"divide">>)]
                           ELSE [n |-> TruncMod(l.n, r.n), panic |-> Nil]
                      [] op = "AND" -> [n |-> BitAnd(l.n, r.n), panic |-> Nil]
                      [] op = "OR" -> [n |-> BitOr(l.n, r.n), panic |-> Nil]
                      [] op = "XOR" -> [n |-> Wrap(l.n + r.n - 2 * BitAnd(l.n, r.n)), panic |-> Nil]
                      [] op = "LT" -> [n |-> truth(l.n < r.n), panic |-> Nil]
                      [] op = "GT" -> [n |-> truth(l.n > r.n), panic |-> Nil]
                      [] op = "LEQ" -> [n |-> truth(l.n <= r.n), panic |-> Nil]
                      [] op = "GEQ" -> [n |-> truth(l.n >= r.n), panic |-> Nil]
                      [] op = "NEQ" -> [n |-> truth(l.n # r.n), panic |-> Nil]
                      [] op = "EQ" -> [n |-> truth(l.n = r.n), panic |-> Nil]
                      [] OTHER -> [n |-> 0, panic |-> Panic("errf", e.Op.Pos, <<"operator">>)]
      [] e.type = "Paren" -> I_expr(V, e.X)
      [] e.type = "Variable" ->
           IF e.Name \in DOMAIN V THEN [n |-> V[e.Name], panic |-> Nil]
           ELSE [n |-> 0, panic |-> Panic("errf", e.Pos, e.Name)]
      [] e.type = "Number" -> [n |-> e.Value, panic |-> Nil]
      [] OTHER -> [n |-> 0, panic |-> Nil]

\* what a statement method hands back: the Interpreter afterwards, the value
\* it panicked with (Nil when it returned), and the innermost statement that
\* Interpreter.stmt dispatched
Done(ip, panic, leaf) == [ip |-> ip, panic |-> panic, leaf |-> leaf]

\* for_ storing the index of the FOR line itself, not the advanced counter
I_forStoresOwnIndex(ip, s) ==
    LET st == I_expr(ip.Vars, s.Start)
        bound == [ip EXCEPT !.Vars = MapPut(ip.Vars, s.Var.Name, st.n)]
        en == I_expr(bound.Vars, s.End)
    IN  IF st.panic # Nil THEN Done(ip, st.panic, s)
        ELSE IF en.panic # Nil THEN Done(bound, en.panic, s)
        ELSE Done([bound EXCEPT !.Fors = Append(bound.Fors,
                       [Block |-> ip.PC - 1, Var |-> s.Var.Name, To |-> en.n])], Nil, s)

\* Interpreter.for_: the binding is stored before s.End is evaluated
I_for_(ip, s) ==
    LET st == I_expr(ip.Vars, s.Start)
        bound == [ip EXCEPT !.Vars = MapPut(ip.Vars, s.Var.Name, st.n)]
        en == I_expr(bound.Vars, s.End)
    IN  IF st.panic # Nil THEN Done(ip, st.panic, s)
        ELSE IF en.panic # Nil THEN Done(bound, en.panic, s)
        ELSE Done([bound EXCEPT !.Fors = Append(bound.Fors,
                       [Block |-> ip.PC, Var |-> s.Var.Name, To |-> en.n])], Nil, s)

\* Interpreter.next
I_next(ip, s) ==
    LET n == Len(ip.Fors)
        f == ip.Fors[n]
        inc == IF f.Var = s.Var.Name
               THEN [ip EXCEPT !.Vars = MapPut(ip.Vars, s.Var.Name,
                                               Wrap(MapGet(ip.Vars, s.Var.Name) + 1))]
               ELSE ip
    IN  IF n > 0
        THEN IF MapGet(inc.Vars, s.Var.Name) <= f.To
             THEN Done([inc EXCEPT !.PC = f.Block], Nil, s)
             ELSE Done([inc EXCEPT !.Fors = SubSeq(inc.Fors, 1, n - 1)], Nil, s)
        ELSE Done(ip, Panic("errf", s.Label, <<"non-matching next">>), s)

\* Interpreter.goto_
I_goto_(ip, s) ==
    IF s.Location.Value \notin DOMAIN ip.Locs
    THEN Done(ip, Panic("errf", s.Label, <<"goto">>), s)
    ELSE Done([ip EXCEPT !.PC = ip.Locs[s.Location.Value]], Nil, s)

\* gosub pushing the counter of the GOSUB line itself, not the advanced one
I_gosubPushesOwnLine(ip, s) ==
    LET pushed == [ip EXCEPT !.Subs = Append(ip.Subs, ip.PC - 1)]
    IN  IF s.Location.Value \notin DOMAIN ip.Locs
        THEN Done(pushed, Panic("errf", s.Label, <<"gosub">>), s)
        ELSE Done([pushed EXCEPT !.PC = ip.Locs[s.Location.Value]], Nil, s)

\* Interpreter.gosub: the push comes before the lookup
I_gosub(ip, s) ==
    LET pushed == [ip EXCEPT !.Subs = Append(ip.Subs, ip.PC)]
    IN  IF s.Location.Value \notin DOMAIN ip.Locs
        THEN Done(pushed, Panic("errf", s.Label, <<"gosub">>), s)
        ELSE Done([pushed EXCEPT !.PC = ip.Locs[s.Location.Value]], Nil, s)

\* Interpreter.return_
I_return_(ip, s) ==
    IF Len(ip.Subs) = 0
    THEN Done(ip, Panic("errf", s.Label, <<"non-matching return">>), s)
    ELSE Done([ip EXCEPT !.PC = ip.Subs[Len(ip.Subs)],
                         !.Subs = SubSeq(ip.Subs, 1, Len(ip.Subs) - 1)], Nil, s)

\* Interpreter.assign
I_assign(ip, s) ==
    LET v == I_expr(ip.Vars, s.Value)
    IN  IF v.panic # Nil THEN Done(ip, v.panic, s)
        ELSE Done([ip EXCEPT !.Vars = MapPut(ip.Vars, s.Var.Name, v.n)], Nil, s)

\* Stdio.Write by fmt.Fprint
Write(ip, text) == [ip EXCEPT !.Mach.out = ip.Mach.out \o text]

\* the loop of Interpreter.print from argument i on
RECURSIVE printArgs(_, _, _)
printArgs(ip, s, i) ==
    IF i > Len(s.Args) THEN Done(ip, Nil, s)
    ELSE LET arg == s.Args[i]
             v == I_expr(ip.Vars, arg)
         IN  CASE arg.type \in {"Binary", "Paren", "Variable", "Number"} ->
                    IF v.panic # Nil THEN Done(ip, v.panic, s)
                    ELSE printArgs(Write(ip, FormatInt(v.n)), s, i + 1)
               [] arg.type = "String" -> printArgs(Write(ip, arg.Value), s, i + 1)
               [] arg.type = "Punct" ->
                    IF arg.Type = "COMMA" THEN printArgs(Write(ip, <<" ">>), s, i + 1)
                    ELSE IF arg.Type = "SEMICOLON" THEN printArgs(ip, s, i + 1)
                    ELSE Done(ip, Panic("errf", s.Label, <<"print argument">>), s)
               [] OTHER -> Done(ip, Panic("errf", s.Label, <<"print argument">>), s)

\* Interpreter.print
I_print(ip, s) == printArgs(ip, s, 1)

\* the PeekStmt case of Interpreter.stmt
I_peek(ip, s) ==
    LET a == I_expr(ip.Vars, s.Addr)
    IN  IF a.panic # Nil THEN Done(ip, a.panic, s)
        ELSE Done([ip EXCEPT !.Vars = MapPut(ip.Vars, s.Var.Name, MapGet(ip.Mach.Values, a.n))],
                  Nil, s)

\* the PokeStmt case of Interpreter.stmt
I_poke(ip, s) ==
    LET a == I_expr(ip.Vars, s.Addr)
        v == I_expr(ip.Vars, s.Value)
    IN  IF a.panic # Nil THEN Done(ip, a.panic, s)
        ELSE IF v.panic # Nil THEN Done(ip, v.panic, s)
        ELSE Done([ip EXCEPT !.Mach.Values = MapPut(ip.Mach.Values, a.n, v.n)], Nil, s)

\* Interpreter.stmt, with Interpreter.if_ for the IfStmt case
RECURSIVE I_stmt(_, _)
I_stmt(ip, s) ==
    CASE s.type = "For" -> I_for_(ip, s)
      [] s.type = "Next" -> I_next(ip, s)
      [] s.type = "If" ->
           LET c == I_expr(ip.Vars, s.Cond)
           IN  IF c.panic # Nil THEN Done(ip, c.panic, s)
               ELSE IF c.n # 0 THEN I_stmt(ip, s.Body)
               ELSE IF s.Else # Nil THEN I_stmt(ip, s.Else.Body)
               ELSE Done(ip, Nil, s)
      [] s.type = "Goto" -> I_goto_(ip, s)
      [] s.type = "Gosub" -> I_gosub(ip, s)
      [] s.type = "Return" -> I_return_(ip, s)
      [] s.type = "Let" -> I_assign(ip, s)
      [] s.type = "End" -> Done([ip EXCEPT !.Halt = TRUE], Nil, s)
      [] s.type = "Peek" -> I_peek(ip, s)
      [] s.type = "Poke" -> I_poke(ip, s)
      [] s.type = "Print" -> I_print(ip, s)
      [] OTHER -> Done(ip, Nil, s)

\* a panic value that implements error: the type assertion e.(error) of the
\* deferred function in Eval succeeds
IsError(e) == e.kind \in {"errf", "runtime"}

\* what Eval and Step hand back: the Interpreter afterwards, the error
\* returned (Nil for nil), whether the call ended in an unrecovered panic
\* instead of returning, and the statement run (Nil when none was)
Out(ip, err, crash, leaf) == [ip |-> ip, err |-> err, crash |-> crash, leaf |-> leaf]

\* Eval without the deferred recover(): every panic ends the call
recoverNothing(r) == Out(r.ip, Nil, r.panic # Nil, r.leaf)

\* the deferred function of Eval on what p.stmt(s) did: recover() and the
\* assertion e.(error), which panics anew when the value is not an error
recover(r) ==
    IF r.panic = Nil THEN Out(r.ip, Nil, FALSE, r.leaf)
    ELSE IF IsError(r.panic) THEN Out(r.ip, r.panic, FALSE, r.leaf)
    ELSE Out(r.ip, Nil, TRUE, r.leaf)

\* Interpreter.Eval: run the statement, turn a panic into the returned error
Eval(ip, s) == recover(I_stmt(ip, s))

\* Step that tests only the counter, not the halt flag
StepIgnoresHalt(ip) ==
    IF ip.PC >= Len(ip.Lines) THEN Out([ip EXCEPT !.Halt = TRUE], Nil, FALSE, Nil)
    ELSE Eval([ip EXCEPT !.PC = ip.PC + 1], ip.Lines[ip.PC + 1])

\* Interpreter.Step
Step(ip) ==
    LET h == IF ip.PC >= Len(ip.Lines) THEN [ip EXCEPT !.Halt = TRUE] ELSE ip
    IN  IF h.Halt THEN Out(h, Nil, FALSE, Nil)
        ELSE Eval([h EXCEPT !.PC = h.PC + 1], h.Lines[h.PC + 1])

\* Interpreter.Reset
Reset(ip) ==
    [ip EXCEPT !.Halt = FALSE, !.PC = 0, !.Vars = EmptyMap, !.Subs = <<>>, !.Fors = <<>>]

\* interp.NewStdio, with the bytes written to it so far
NewStdio == [out |-> <<>>, Values |-> EmptyMap]

\* interp.NewInterpreter
NewInterpreter(mach) ==
    Reset([Mach |-> mach, Halt |-> FALSE, PC |-> 0, Vars |-> EmptyMap, Subs |-> <<>>,
           Fors |-> <<>>, Locs |-> EmptyMap, Lines |-> <<>>])

\* ast.BaseStmt.Line
LineOfStmt(s) == s.Label.Value

\* for i, s := range lines { locs[s.Line()] = i }, from index i (from 1) on
RECURSIVE buildLocs(_, _, _)
buildLocs(locs, lines, i) ==
    IF i > Len(lines) THEN locs
    ELSE buildLocs(MapPut(locs, LineOfStmt(lines[i]), i - 1), lines, i + 1)

\* addLine without the removal of the stored line with the same label
addLineKeepsOld(ip, s) ==
    LET lines == Append(ip.Lines, s)
    IN  [ip EXCEPT !.Lines = lines,
                   !.Locs = buildLocs(EmptyMap, lines, 1),
                   !.PC = Len(lines) - 1]

\* interp.addLine
addLine(ip, s) ==
    LET found == LineOfStmt(s) \in DOMAIN ip.Locs
        n == ip.Locs[LineOfStmt(s)]
        kept == IF found
                THEN SubSeq(ip.Lines, 1, n) \o SubSeq(ip.Lines, n + 2, Len(ip.Lines))
                ELSE ip.Lines
        lines == Append(kept, s)
    IN  [ip EXCEPT !.Lines = lines,
                   !.Locs = buildLocs(EmptyMap, lines, 1),
                   !.PC = Len(lines) - 1]

----------------------------------------------------------------------------
(* Specification of the tokenizer on its own: Init on a source, then Next *)

LexAlphabet == {"R", "e", "M", "1", ArabicThree, "\"", "\n"}

RECURSIVE SeqsUpTo(_, _)
SeqsUpTo(S, n) ==
    IF n = 0 THEN {<<>>}
    ELSE LET shorter == SeqsUpTo(S, n - 1)
         IN  shorter \cup {Append(s, x) : s \in {q \in shorter : Len(q) = n - 1}, x \in S}

LexSources == SeqsUpTo(LexAlphabet, MaxSrcLen)

\* calls of Next made on one source: enough to pass the end twice
LexMaxCalls == MaxSrcLen + 2

\* the parser's variables while the tokenizer is driven on its own
ParseIdle ==
    /\ parser = NewParser(ZeroTokenizer).p
    /\ rets = <<>>

\* the drivers' variables while the tokenizer or the parser is driven
RunIdle ==
    /\ interp = NewInterpreter(NewStdio)
    /\ phase = "idle"
    /\ rerr = Nil
    /\ last = Nil

LexStart ==
    /\ \E sc \in BOOLEAN, src \in LexSources :
          tz = LexInit([ScanComments |-> sc], src)
    /\ toks = <<>>
    /\ hung = FALSE
    /\ ParseIdle
    /\ RunIdle

\* one call of Tokenizer.Next by the caller
LexNext ==
    /\ ~hung
    /\ Len(toks) < LexMaxCalls
    /\ \E r \in {Next(tz)} :
           IF r.hang
           THEN /\ hung' = TRUE
                /\ UNCHANGED <<tz, toks>>
           ELSE /\ tz' = r.t
                /\ toks' = Append(toks, [pos |-> r.pos, tok |-> r.tok, lit |-> r.lit])
                /\ UNCHANGED hung
    /\ UNCHANGED parsevars
    /\ UNCHANGED runvars

SpecLex == LexStart /\ [][LexNext]_vars

----------------------------------------------------------------------------
(* Specification of the parser on its own: a source of up to MaxParseLines *)
(* physical lines, then Line call after call                               *)

\* line bodies
PRINTA == <<" ", "P", "R", "I", "N", "T", " ", "\"", "A", "\"">>
IFTHEN == <<" ", "I", "F", " ", "1", " ", "T", "H", "E", "N">>
ELSEKW == <<" ", "E", "L", "S", "E">>
GOTONONE == <<" ", "G", "O", "T", "O">>
ENDEXTRA == <<" ", "E", "N", "D", " ", "5">>
ENDKW == <<" ", "E", "N", "D">>
PRINTOPEN == <<" ", "P", "R", "I", "N", "T", " ", "\"", "A">>

\* what may follow the label on a physical line
ParseBodies ==
    { PRINTA,
      IFTHEN,
      ELSEKW,
      GOTONONE,
      ENDEXTRA,
      ENDKW,
      PRINTOPEN }

\* physical line i: its label and the body chosen for it, or a blank line
\* when none is chosen
ParseLinesAt(i, b) == IF b = <<>> THEN <<>> ELSE <<digitRune(i)>> \o b

\* the text of the n physical lines chosen by f, each ended by a line feed
RECURSIVE ParseTexts(_, _)
ParseTexts(f, n) ==
    IF n = 0 THEN <<>>
    ELSE ParseTexts(f, n - 1) \o ParseLinesAt(n, f[n]) \o <<"\n">>

\* with or without the line feed of the last line
ParseSources(f, n) == {ParseTexts(f, n), SubSeq(ParseTexts(f, n), 1, Len(ParseTexts(f, n)) - 1)}

ParseMaxCalls == MaxParseLines + 2

\* the tokenizer's own variables while another component is driven
LexIdle ==
    /\ tz = ZeroTokenizer
    /\ toks = <<>>
    /\ hung = FALSE

\* the last call made has returned to its caller a statement or an error;
\* the caller's loop ends at io.EOF
Returned(rs) == IF rs = <<>> THEN TRUE ELSE rs[Len(rs)].st \in {"ok", "err"}

ParseStart ==
    /\ \E n \in 1..MaxParseLines : \E f \in [1..n -> ParseBodies \cup {<<>>}] :
          \E src \in ParseSources(f, n) :
             parser = NewParser(LexInit([ScanComments |-> FALSE], src)).p
    /\ rets = <<>>
    /\ LexIdle
    /\ RunIdle

\* one call of Parser.Line by the caller
ParseLine ==
    /\ Len(rets) < ParseMaxCalls
    /\ Returned(rets)
    /\ \E r \in {Call("Line", <<parser>>)} :
           /\ parser' = r.p
           /\ rets' = Append(rets, [at |-> parser.tok.Pos, st |-> r.st, v |-> r.v])
    /\ UNCHANGED lexvars
    /\ UNCHANGED runvars

SpecParse == ParseStart /\ [][ParseLine]_vars

\* sources with parenthesised factors
LETAP == <<" ", "L", "E", "T", " ", "A", "=", "(", "1", "+", "2", ")">>
PRINTP == <<" ", "P", "R", "I", "N", "T", " ", "1", "*", "(", "2", ")">>
LETA12 == <<" ", "L", "E", "T", " ", "A", "=", "1", "+", "2">>
ParenBodies == {LETAP, PRINTP, LETA12, PRINTA}

ParenStart ==
    /\ \E n \in 1..MaxParseLines : \E f \in [1..n -> ParenBodies \cup {<<>>}] :
          \E src \in ParseSources(f, n) :
             parser = NewParser(LexInit([ScanComments |-> FALSE], src)).p
    /\ rets = <<>>
    /\ LexIdle
    /\ RunIdle

SpecParen == ParenStart /\ [][ParseLine]_vars

----------------------------------------------------------------------------
(* The batch driver interp.Run on a source of up to MaxRunLines lines      *)

\* further line bodies
PRINTX == <<" ", "P", "R", "I", "N", "T", " ", "\"", "X", "\"">>
RETURNKW == <<" ", "R", "E", "T", "U", "R", "N">>
GOTO3 == <<" ", "G", "O", "T", "O", " ", "3">>
GOTO9 == <<" ", "G", "O", "T", "O", " ", "9">>
GOSUB3 == <<" ", "G", "O", "S", "U", "B", " ", "3">>
GOSUB9 == <<" ", "G", "O", "S", "U", "B", " ", "9">>
PRINTU == <<" ", "P", "R", "I", "N", "T", " ", "A">>
PRINTI == <<" ", "P", "R", "I", "N", "T", " ", "I">>
NEXTI == <<" ", "N", "E", "X", "T", " ", "I">>
LETAB == <<" ", "L", "E", "T", " ", "A", "=", "B">>
LETA1 == <<" ", "L", "E", "T", " ", "A", "=", "1">>
FORIB == <<" ", "F", "O", "R", " ", "I", "=", "1", " ", "T", "O", " ", "B">>
FORTO(a, b) == <<" ", "F", "O", "R", " ", "I", "=">> \o FormatInt(a) \o
               <<" ", "T", "O", " ">> \o FormatInt(b)

\* the texts of n physical lines, line i being its number i and a body of
\* Bodies, each ended by a line feed
RECURSIVE TextsOf(_, _)
TextsOf(Bodies, n) ==
    IF n = 0 THEN {<<>>}
    ELSE {t \o <<digitRune(n)>> \o b \o <<"\n">> : t \in TextsOf(Bodies, n - 1), b \in Bodies}

SourcesOf(Bodies) == UNION {TextsOf(Bodies, n) : n \in 1..MaxRunLines}

\* control transfer: PRINT, END, GOTO, GOSUB, RETURN, IF
CallBodies == {PRINTX, ENDKW, RETURNKW, GOTO3, GOTO9, GOSUB3, GOSUB9, IFTHEN}

\* the fatal evaluation conditions
ErrBodies == {GOTO9, GOSUB9, RETURNKW, NEXTI, PRINTU, LETAB, LETA1, FORIB}

\* FOR/NEXT loops over these (start, end) bounds
LoopBounds == {<<1, 3>>, <<2, 2>>, <<3, 1>>, <<MaxInt, MaxInt>>}
LoopBodies == {FORTO(ab[1], ab[2]) : ab \in LoopBounds} \cup {PRINTI, NEXTI, ENDKW}

\* Run up to its parse loop: the Tokenizer, the Parser, the Interpreter
RunStart(Sources) ==
    /\ \E src \in Sources :
          parser = NewParser(LexInit([ScanComments |-> FALSE], src)).p
    /\ rets = <<>>
    /\ interp = NewInterpreter(NewStdio)
    /\ phase = "parse"
    /\ rerr = Nil
    /\ last = Nil
    /\ LexIdle

\* one iteration of Run's parse loop; at io.EOF the label map is built and
\* the Interpreter reset
RunParseLine ==
    /\ phase = "parse"
    /\ \E r \in {Call("Line", <<parser>>)} :
           /\ parser' = r.p
           /\ CASE r.st = "eof" ->
                     /\ interp' = Reset([interp EXCEPT
                                           !.Locs = buildLocs(interp.Locs, interp.Lines, 1)])
                     /\ phase' = "run"
                     /\ rerr' = rerr
                [] r.st = "err" ->
                     /\ interp' = interp
                     /\ phase' = "done"
                     /\ rerr' = r.v
                [] r.st = "ok" ->
                     /\ interp' = [interp EXCEPT !.Lines = Append(interp.Lines, r.v)]
                     /\ phase' = phase
                     /\ rerr' = rerr
                [] r.st = "hang" ->
                     /\ interp' = interp
                     /\ phase' = "stuck"
                     /\ rerr' = rerr
                [] r.st = "overflow" ->
                     /\ interp' = interp
                     /\ phase' = "crashed"
                     /\ rerr' = rerr
    /\ UNCHANGED <<rets, last>>
    /\ UNCHANGED lexvars

\* the model's caps on what grows without bound in a program that loops
WithinCaps(ip) ==
    /\ Len(ip.Mach.out) < MaxOut
    /\ Len(ip.Subs) < MaxStack
    /\ Len(ip.Fors) < MaxStack

\* one iteration of Run's step loop: for !interp.Halt { err := interp.Step();
\* if err != nil { return err } }; return nil
RunStep ==
    /\ phase = "run"
    /\ WithinCaps(interp)
    /\ IF interp.Halt
       THEN /\ phase' = "done"
            /\ UNCHANGED <<interp, rerr, last>>
       ELSE \E r \in {Step(interp)} :
                /\ interp' = r.ip
                /\ last' = [leaf |-> r.leaf, err |-> r.err, pre |-> interp, op |-> "step"]
                /\ phase' = IF r.crash THEN "crashed"
                            ELSE IF r.err # Nil THEN "done"
                            ELSE phase
                /\ rerr' = r.err
    /\ UNCHANGED <<parser, rets>>
    /\ UNCHANGED lexvars

RunNext == RunParseLine \/ RunStep

\* control-transfer programs
CallSources == SourcesOf(CallBodies)
SpecRun == RunStart(CallSources) /\ [][RunNext]_vars

\* programs with the fatal conditions
ErrSources == SourcesOf(ErrBodies)
SpecErr == RunStart(ErrSources) /\ [][RunNext]_vars

\* FOR/NEXT programs
LoopSources == SourcesOf(LoopBodies)
SpecLoop == RunStart(LoopSources) /\ [][RunNext]_vars

\* loops whose start value is above the end bound
DownBounds == {<<3, 1>>, <<2, 1>>, <<MaxInt, 1>>}
DownBodies == {FORTO(ab[1], ab[2]) : ab \in DownBounds} \cup {PRINTI, NEXTI, ENDKW}
DownSources == SourcesOf(DownBodies)
SpecDown == RunStart(DownSources) /\ [][RunNext]_vars

\* loops whose NEXT names the loop's variable or another one
NEXTJ == <<" ", "N", "E", "X", "T", " ", "J">>
LETJ5 == <<" ", "L", "E", "T", " ", "J", "=", "5">>
NextBodies == {FORTO(1, 3), FORTO(3, 1), NEXTI, NEXTJ, LETJ5, ENDKW}
NextSources == SourcesOf(NextBodies)
SpecNext == RunStart(NextSources) /\ [][RunNext]_vars

\* the texts of n physical lines, each a label of Labels and a body of Bodies
RECURSIVE LabelledTextsOf(_, _, _)
LabelledTextsOf(Labels, Bodies, n) ==
    IF n = 0 THEN {<<>>}
    ELSE {t \o <<digitRune(l)>> \o b \o <<"\n">> :
             t \in LabelledTextsOf(Labels, Bodies, n - 1), l \in Labels, b \in Bodies}

\* programs that may use a label more than once
DupLabels == {1, 2}
DupBodies == {PRINTA, PRINTX, ENDKW}
DupSources == UNION {LabelledTextsOf(DupLabels, DupBodies, n) : n \in 1..MaxRunLines}
SpecDup == RunStart(DupSources) /\ [][RunNext]_vars

\* statements that divide by zero
LETAD0 == <<" ", "L", "E", "T", " ", "A", "=", "1", "/", "0">>
LETAM0 == <<" ", "L", "E", "T", " ", "A", "=", "1", "%", "0">>
FORD0 == <<" ", "F", "O", "R", " ", "I", "=", "1", " ", "T", "O", " ", "1", "/", "0">>
POKED0 == <<" ", "P", "O", "K", "E", " ", "1", ",", "1", "/", "0">>
PEEKD0 == <<" ", "P", "E", "E", "K", " ", "1", "%", "0", ",", "A">>
PRINTD0 == <<" ", "P", "R", "I", "N", "T", " ", "1", "/", "0">>
POKE12 == <<" ", "P", "O", "K", "E", " ", "1", ",", "2">>
DivBodies == {LETAD0, LETAM0, FORD0, POKED0, PEEKD0, PRINTD0, LETA1, POKE12}
DivSources == SourcesOf(DivBodies)
SpecDiv == RunStart(DivSources) /\ [][RunNext]_vars

\* a caller of the Interpreter calls Step once more after Run has returned
\* nil with the halt flag set
StepHalted ==
    /\ phase = "done"
    /\ rerr = Nil
    /\ interp.Halt
    /\ \E r \in {Step(interp)} :
          /\ interp' = r.ip
          /\ last' = [leaf |-> r.leaf, err |-> r.err, pre |-> interp, op |-> "halted"]
          /\ phase' = IF r.crash THEN "crashed" ELSE phase
    /\ UNCHANGED <<parser, rets, rerr>>
    /\ UNCHANGED lexvars

HaltNext == RunParseLine \/ RunStep \/ StepHalted

\* control-transfer programs, stepped again after they have halted
SpecHalt == RunStart(CallSources) /\ [][HaltNext]_vars

----------------------------------------------------------------------------
(* The interactive driver interp.Repl on lines read one at a time           *)

\* the lines the scanner delivers, as strings.TrimSpace leaves them: the
\* commands p and q, the empty line, and a label 1..MaxReplLabel with a body
ReplBodies == {PRINTA, PRINTX, ENDKW, GOTO3, GOTONONE}
ReplLines ==
    {<<"p">>, <<"q">>, <<>>} \cup
    {<<digitRune(n)>> \o b : n \in 1..MaxReplLabel, b \in ReplBodies}

\* Repl up to its loop: the parser on the zero Tokenizer, the Interpreter
ReplStart ==
    /\ parser = NewParser(ZeroTokenizer).p
    /\ rets = <<>>
    /\ interp = NewInterpreter(NewStdio)
    /\ phase = "read"
    /\ rerr = Nil
    /\ last = Nil
    /\ LexIdle

\* what Repl does with an Eval result
evalOutcome(o) == [ip |-> o.ip, running |-> FALSE, crash |-> o.crash, err |-> o.err]

\* the switch of Repl with a run that starts at the first stored line
replSwitchRunsFromStart(ip, st) ==
    CASE st.type \in {"Gosub", "Goto"} ->
           [ip |-> [ip EXCEPT !.PC = 0, !.Halt = FALSE],
            running |-> TRUE, crash |-> FALSE, err |-> Nil]
      [] st.type \in {"Next", "End"} ->
           [ip |-> ip, running |-> FALSE, crash |-> FALSE, err |-> Nil]
      [] OTHER -> evalOutcome(Eval(ip, st))

\* the switch of Repl on the statement st just stored in ip by addLine: GOSUB
\* and GOTO start replRun (p.PC = len(p.Lines) - 1; p.Halt = false), NEXT and
\* END do nothing, everything else is evaluated at once
replSwitch(ip, st) ==
    CASE st.type \in {"Gosub", "Goto"} ->
           [ip |-> [ip EXCEPT !.PC = Len(ip.Lines) - 1, !.Halt = FALSE],
            running |-> TRUE, crash |-> FALSE, err |-> Nil]
      [] st.type \in {"Next", "End"} ->
           [ip |-> ip, running |-> FALSE, crash |-> FALSE, err |-> Nil]
      [] OTHER -> evalOutcome(Eval(ip, st))

\* one iteration of Repl's loop on a line read, one of Lines: the prompt,
\* then p, q, or lexer.Init, parser.Reset, parser.Line, addLine and the switch
ReplReadOf(Lines) ==
    /\ phase = "read"
    /\ WithinCaps(interp)
    /\ \E line \in Lines : \E ip \in {Write(interp, <<">", " ">>)} :
          IF line = <<"p">>
          THEN /\ interp' = ip
               /\ UNCHANGED <<parser, rets, phase, rerr, last>>
          ELSE IF line = <<"q">>
          THEN /\ interp' = ip
               /\ phase' = "done"
               /\ UNCHANGED <<parser, rets, rerr, last>>
          ELSE \E p0 \in {ParserReset([parser EXCEPT
                                         !.lex = LexInit([ScanComments |-> FALSE], line)])} :
               \E r \in {IF p0.st = "ok" THEN Call("Line", <<p0.p>>) ELSE p0} :
                  /\ parser' = r.p
                  /\ rets' = Append(rets, [at |-> p0.p.tok.Pos, st |-> r.st, v |-> r.v])
                  /\ IF r.st = "ok"
                     THEN \E e \in {replSwitch(addLine(ip, r.v), r.v)} :
                             /\ interp' = e.ip
                             /\ phase' = IF e.crash THEN "crashed"
                                         ELSE IF e.running THEN "replRun"
                                         ELSE phase
                             /\ rerr' = IF e.err # Nil THEN e.err ELSE rerr
                             /\ last' = [leaf |-> r.v, err |-> e.err, pre |-> interp,
                                         op |-> "enter"]
                     ELSE /\ interp' = ip
                          /\ phase' = IF r.st = "hang" THEN "stuck"
                                      ELSE IF r.st = "overflow" THEN "crashed"
                                      ELSE phase
                          /\ rerr' = IF r.st = "err" THEN r.v ELSE rerr
                          /\ UNCHANGED last
    /\ UNCHANGED lexvars

ReplRead == ReplReadOf(ReplLines)

\* the scanner has no further line: the prompt, a line feed, and Repl returns
ReplEnd ==
    /\ phase = "read"
    /\ WithinCaps(interp)
    /\ interp' = Write(interp, <<">", " ", "\n">>)
    /\ phase' = "done"
    /\ UNCHANGED <<parser, rets, rerr, last>>
    /\ UNCHANGED lexvars

\* one iteration of replRun's loop: for p.Halt = false; !p.Halt; { if err :=
\* p.Step(); err != nil { return err } }
ReplStep ==
    /\ phase = "replRun"
    /\ WithinCaps(interp)
    /\ IF interp.Halt
       THEN /\ phase' = "read"
            /\ UNCHANGED <<interp, rerr, last>>
       ELSE \E r \in {Step(interp)} :
                /\ interp' = r.ip
                /\ last' = [leaf |-> r.leaf, err |-> r.err, pre |-> interp, op |-> "step"]
                /\ phase' = IF r.crash THEN "crashed"
                            ELSE IF r.err # Nil THEN "read"
                            ELSE phase
                /\ rerr' = IF r.err # Nil THEN r.err ELSE rerr
    /\ UNCHANGED <<parser, rets>>
    /\ UNCHANGED lexvars

ReplNext == ReplRead \/ ReplStep \/ ReplEnd

SpecRepl == ReplStart /\ [][ReplNext]_vars

\* sessions that enter PRINT and LET lines, some of which fail, and GOTO
GotoReplBodies == {PRINTA, PRINTU, LETA1, GOTO3}
GotoReplLines ==
    {<<"q">>} \cup {<<digitRune(n)>> \o b : n \in 1..MaxReplLabel, b \in GotoReplBodies}

GotoReplRead == ReplReadOf(GotoReplLines)

GotoReplNext == GotoReplRead \/ ReplStep \/ ReplEnd

SpecReplGoto == ReplStart /\ [][GotoReplNext]_vars

----------------------------------------------------------------------------
(* The physical lines of the parser's source, read off the text itself *)

parseSrc == parser.lex.src

NewlinesBefore(src, off) == Cardinality({k \in 1..off : src[k] = "\n"})

\* the number (from 1) of the physical line holding offset off
LineAt(src, off) == NewlinesBefore(src, off) + 1

NumLines(src) ==
    IF src = <<>> THEN 0
    ELSE NewlinesBefore(src, Len(src)) + (IF src[Len(src)] = "\n" THEN 0 ELSE 1)

\* the offset at which physical line n starts
LineStart(src, n) ==
    IF n = 1 THEN 0
    ELSE CHOOSE o \in {k \in 1..Len(src) : src[k] = "\n"} : NewlinesBefore(src, o) = n - 1

\* physical line n without its line feed
LineText(src, n) ==
    LET a == LineStart(src, n)
        ends == {o \in (a + 1)..Len(src) : src[o] = "\n"}
        e == IF ends = {} THEN Len(src) ELSE (CHOOSE o \in ends : \A q \in ends : o <= q) - 1
    IN  SubSeq(src, a + 1, e)

\* what follows the one-digit label on physical line n; <<>> for a blank line
\* or a line that does not exist
BodyOf(src, n) ==
    IF n < 1 \/ n > NumLines(src) THEN <<>>
    ELSE IF LineText(src, n) = <<>> THEN <<>>
    ELSE Tail(LineText(src, n))

\* one-line statements that parse, and the type of the statement each gives
SimpleBodies == {PRINTA, ENDKW}
TypeOfBody(b) == IF b = PRINTA THEN "Print" ELSE "End"

\* the last physical line of the statement that starts on line n by the
\* grammar (stmt := Label (simple | IF relation THEN <line-break> stmt
\* [Label ELSE <line-break> stmt])), 0 when the lines from n do not form one
RECURSIVE StmtEnd(_, _)
StmtEnd(src, n) ==
    IF BodyOf(src, n) \in SimpleBodies THEN n
    ELSE IF BodyOf(src, n) = IFTHEN
    THEN LET b == StmtEnd(src, n + 1)
         IN  IF b = 0 THEN 0
             ELSE IF BodyOf(src, b + 1) = ELSEKW THEN StmtEnd(src, b + 2)
             ELSE b
    ELSE 0

\* an IF statement with no ELSE of its own starts on line n, ends on line b,
\* and a labelled line that is not an ELSE line follows it
IfWithoutElseAt(src, n, b) ==
    /\ BodyOf(src, n) = IFTHEN
    /\ StmtEnd(src, n + 1) = b
    /\ b # 0
    /\ BodyOf(src, b + 1) # <<>>
    /\ BodyOf(src, b + 1) # ELSEKW

\* call i of Line started on the first token of physical line n
StartedAtLine(i, n) == n \in 1..NumLines(parseSrc) /\ rets[i].at = LineStart(parseSrc, n)

\* C8: when an IF line and its body are followed by a labelled line that does
\* not start with <label> ELSE, the Line call that starts on the IF line
\* returns the IfStmt (its own label, no Else); the tokens read ahead are put
\* back, so that the next call starts on the following line and, that line
\* being a well-formed one-line statement, returns its statement with its
\* own label; and the pushback buffer never holds more than one token.
C8_DanglingElseRestored ==
    /\ Len(parser.look) <= 1
    /\ \A i \in 1..Len(rets) :
       \A n \in {LineAt(parseSrc, rets[i].at)} : \A b \in {StmtEnd(parseSrc, n + 1)} :
          (StartedAtLine(i, n) /\ IfWithoutElseAt(parseSrc, n, b)) =>
             /\ rets[i].st = "ok"
             /\ rets[i].v.type = "If"
             /\ rets[i].v.Label.Value = n
             /\ rets[i].v.Else = Nil
             /\ i = Len(rets) =>
                   /\ parser.tok.Type = "NUMBER"
                   /\ parser.tok.Pos = LineStart(parseSrc, b + 1)
                   /\ Len(parser.look) = 1
             /\ (i < Len(rets) /\ BodyOf(parseSrc, b + 1) \in SimpleBodies) =>
                   /\ rets[i + 1].at = LineStart(parseSrc, b + 1)
                   /\ rets[i + 1].st = "ok"
                   /\ rets[i + 1].v.type = TypeOfBody(BodyOf(parseSrc, b + 1))
                   /\ rets[i + 1].v.Label.Value = b + 1

\* C8 witness: a nested IF (an IF whose body is an IF) with no ELSE has been
\* returned, and the call after it has returned the following line's PRINT
C8_Witness ==
    /\ Len(rets) >= 2
    /\ rets[1].st = "ok" /\ rets[1].v.type = "If"
    /\ rets[1].v.Body.type = "If"
    /\ rets[1].v.Else = Nil /\ rets[1].v.Body.Else = Nil
    /\ rets[2].st = "ok" /\ rets[2].v.type = "Print"
    /\ rets[2].v.Label.Value = 4

\* C9: after a Line call has returned an error for a malformed line, the next
\* call returns the statement of the line that follows it (here: a following
\* well-formed one-line statement, whatever token the error was raised at).
C9_ResyncToNextLine ==
    \A i \in 1..Len(rets) : \A n \in 1..NumLines(parseSrc) :
       (/\ StartedAtLine(i, n)
        /\ BodyOf(parseSrc, n) \in {GOTONONE, ENDEXTRA, PRINTOPEN}
        /\ BodyOf(parseSrc, n + 1) \in SimpleBodies) =>
          /\ rets[i].st = "err"
          /\ i < Len(rets) =>
                /\ rets[i + 1].st = "ok"
                /\ rets[i + 1].v.type = TypeOfBody(BodyOf(parseSrc, n + 1))
                /\ rets[i + 1].v.Label.Value = n + 1

\* the part of C9 the code keeps: when the error is raised at a token before
\* the line terminator, the next call returns the following line's statement
ResyncAfterErrorBeforeTerminator ==
    \A i \in 1..Len(rets) : \A n \in 1..NumLines(parseSrc) :
       (/\ StartedAtLine(i, n)
        /\ BodyOf(parseSrc, n) \in {ENDEXTRA, PRINTOPEN}
        /\ BodyOf(parseSrc, n + 1) \in SimpleBodies) =>
          /\ rets[i].st = "err"
          /\ i < Len(rets) =>
                /\ rets[i + 1].st = "ok"
                /\ rets[i + 1].v.Label.Value = n + 1

\* an IF statement starts on line n and its body ends on the last line of the
\* source
IfEndsTheSource(src, n) ==
    /\ BodyOf(src, n) = IFTHEN
    /\ StmtEnd(src, n + 1) # 0
    /\ StmtEnd(src, n + 1) = NumLines(src)

\* C18: the Line call that starts on an IF line whose body ends the source
\* returns the IfStmt, with its own label and no Else, and the call after it
\* returns the end-of-input signal.
C18_IfAtEndOfInputParses ==
    \A i \in 1..Len(rets) : \A n \in {LineAt(parseSrc, rets[i].at)} :
       (StartedAtLine(i, n) /\ IfEndsTheSource(parseSrc, n)) =>
          /\ rets[i].st = "ok"
          /\ rets[i].v.type = "If"
          /\ rets[i].v.Label.Value = n
          /\ rets[i].v.Else = Nil
          /\ i < Len(rets) => rets[i + 1].st = "eof"

\* what the code does instead: the call returns an error, raised where the
\* label of a following line is looked for, and the call after it returns
\* the end-of-input signal
IfAtEndOfInputIsAnError ==
    \A i \in 1..Len(rets) : \A n \in {LineAt(parseSrc, rets[i].at)} :
       (StartedAtLine(i, n) /\ IfEndsTheSource(parseSrc, n)) =>
          /\ rets[i].st = "err"
          /\ i < Len(rets) => rets[i + 1].st = "eof"

\* call i of Line follows a call that returned a statement, and what is left
\* of the source from its first token on is line feeds only
OnlyTerminatorsLeft(i) ==
    /\ i > 1
    /\ rets[i - 1].st = "ok"
    /\ \A k \in (rets[i].at + 1)..Len(parseSrc) : parseSrc[k] = "\n"

\* C21: a Line call made when only line terminators are left after the last
\* statement returns the end-of-input signal, not an error.
C21_TrailingTerminatorsGiveEOF ==
    \A i \in 1..Len(rets) : OnlyTerminatorsLeft(i) => rets[i].st = "eof"

\* what the code does instead: the call returns the end-of-input signal when
\* nothing is left, and an error when a line feed is
TrailingTerminatorsGiveError ==
    \A i \in 1..Len(rets) :
       OnlyTerminatorsLeft(i) =>
          rets[i].st = IF rets[i].at < Len(parseSrc) THEN "err" ELSE "eof"

\* C16: every call of Line returns (a statement, an error or end of input),
\* and the call that starts on a line LET A=(1+2) returns the LET statement
\* whose value is the parenthesised expression holding 1+2.
C16_ParenFactorTerminates ==
    /\ \A i \in 1..Len(rets) : rets[i].st \in {"ok", "err", "eof"}
    /\ \A i \in 1..Len(rets) : \A n \in {LineAt(parseSrc, rets[i].at)} :
          (StartedAtLine(i, n) /\ BodyOf(parseSrc, n) = LETAP) =>
             /\ rets[i].st = "ok"
             /\ rets[i].v.type = "Let"
             /\ rets[i].v.Value.type = "Paren"
             /\ rets[i].v.Value.X.type = "Binary"

\* the part of C16 the code keeps: a call that meets no ( returns
CallsWithoutParenReturn ==
    \A i \in 1..Len(rets) : \A n \in {LineAt(parseSrc, rets[i].at)} :
       (StartedAtLine(i, n) /\ BodyOf(parseSrc, n) \in {LETA12, PRINTA}) =>
          /\ rets[i].st = "ok"
          /\ rets[i].v.Label.Value = n

----------------------------------------------------------------------------
(* Claims about the tokenizer *)

\* C10: for every finite input every call of Next returns, an end-of-input
\* token is returned after finitely many calls (each call before it consumes
\* at least one rune, so after at most Len(src) + 1 calls), and every call
\* after that returns end-of-input again.
C10_NextReachesEOF ==
    /\ ~hung
    /\ Len(toks) > Len(tz.src) => toks[Len(toks)].tok = "EOF"
    /\ \A i \in 1..Len(toks) : \A j \in 1..Len(toks) :
          (i < j /\ toks[i].tok = "EOF") => toks[j].tok = "EOF"

\* the part of C10 the code keeps: on a source with no REM word and no
\* non-ASCII digit, unterminated strings included
NextReachesEOFOnPlainSource ==
    (\A k \in 1..Len(tz.src) : tz.src[k] \notin {"M", ArabicThree}) =>
        /\ ~hung
        /\ Len(toks) > Len(tz.src) => toks[Len(toks)].tok = "EOF"
        /\ \A i \in 1..Len(toks) : \A j \in 1..Len(toks) :
              (i < j /\ toks[i].tok = "EOF") => toks[j].tok = "EOF"

\* the source starts with the word REM, the comment after it is closed by a
\* line feed
StartsWithClosedComment(src) ==
    /\ Len(src) >= 4
    /\ SubSeq(src, 1, 3) = <<"R", "e", "M">>
    /\ src[4] \notin {"R", "e", "M", "1"}
    /\ \E k \in 4..Len(src) : src[k] = "\n"

\* the offset of the line feed that closes that comment
CommentEnd(src) == (CHOOSE k \in 4..Len(src) : src[k] = "\n" /\ \A j \in 4..(k - 1) : src[j] # "\n") - 1

\* the first token returned that is not the comment's own
AfterComment == IF tz.conf.ScanComments THEN 2 ELSE 1

\* C17: a REM comment is consumed up to the line feed that closes it, which
\* is left to be read: the first token returned after the comment is the CR
\* token of that line feed.
C17_CommentLeavesLineTerminator ==
    (StartsWithClosedComment(tz.src) /\ Len(toks) >= AfterComment) =>
       /\ toks[AfterComment].tok = "CR"
       /\ toks[AfterComment].pos = CommentEnd(tz.src)

\* what the code does instead: the line feed is consumed with the comment,
\* and the first token returned after it starts behind the line feed
CommentConsumesLineTerminator ==
    (StartsWithClosedComment(tz.src) /\ Len(toks) >= AfterComment) =>
       /\ toks[AfterComment].pos > CommentEnd(tz.src)
       /\ tz.conf.ScanComments =>
             /\ toks[1].tok = "REM"
             /\ toks[1].lit = SubSeq(tz.src, 1, CommentEnd(tz.src) + 1)

----------------------------------------------------------------------------
(* Claims about the batch run *)

\* the step loop of Run has run a statement
Stepped == phase \in {"run", "done"} /\ last # Nil /\ last.leaf # Nil

\* what the machine has been sent
out == interp.Mach.out

\* the decimal texts of a, a + 1, ..., b one after the other
RECURSIVE Printed(_, _)
Printed(a, b) == IF a > b THEN <<>> ELSE FormatInt(a) \o Printed(a + 1, b)

IsPrefix(s, t) == Len(s) <= Len(t) /\ SubSeq(t, 1, Len(s)) = s

\* the program built starts FOR I=a TO b / PRINT I / NEXT I with numbers a <= b
SimpleLoop(ip) ==
    /\ Len(ip.Lines) >= 3
    /\ ip.Lines[1].type = "For"
    /\ ip.Lines[1].Var.Name = <<"I">>
    /\ ip.Lines[1].Start.type = "Number"
    /\ ip.Lines[1].End.type = "Number"
    /\ ip.Lines[1].Start.Value <= ip.Lines[1].End.Value
    /\ ip.Lines[2].type = "Print"
    /\ Len(ip.Lines[2].Args) = 1
    /\ ip.Lines[2].Args[1].type = "Variable"
    /\ ip.Lines[2].Args[1].Name = <<"I">>
    /\ ip.Lines[3].type = "Next"
    /\ ip.Lines[3].Var.Name = <<"I">>

\* the NEXT of that loop has just fallen through to the statement after it
LoopLeft == Stepped /\ last.leaf = interp.Lines[3] /\ last.err = Nil /\ interp.PC = 3

\* the text of 1 FOR I=1 TO 3 / 2 PRINT I / 3 NEXT I / 4 END
LoopExample ==
    <<"1">> \o FORTO(1, 3) \o <<"\n", "2">> \o PRINTI \o <<"\n", "3">> \o NEXTI \o
    <<"\n", "4">> \o ENDKW \o <<"\n">>

\* C1: for a loop FOR I=a TO b / PRINT I / NEXT I with a <= b the body runs
\* once for each of a, a + 1, ..., b in that order and never more: what has
\* been printed is always a beginning of the texts of a..b while the loop is
\* running, and all of them when NEXT falls through, with the loop stack
\* empty again; and the program 1 FOR I=1 TO 3 / 2 PRINT I / 3 NEXT I / 4 END
\* ends without error having printed 1, 2, 3, halted by the END of line 4.
C1_LoopRunsBodyOncePerValue ==
    /\ (phase \in {"run", "done"} /\ SimpleLoop(interp)) =>
          /\ interp.PC <= 3 =>
                IsPrefix(out, Printed(interp.Lines[1].Start.Value, interp.Lines[1].End.Value))
          /\ LoopLeft =>
                /\ out = Printed(interp.Lines[1].Start.Value, interp.Lines[1].End.Value)
                /\ interp.Fors = <<>>
    /\ (phase = "done" /\ parseSrc = LoopExample) =>
          /\ rerr = Nil
          /\ out = <<"1", "2", "3">>
          /\ interp.Halt
          /\ last.leaf.type = "End"
          /\ last.leaf.Label.Value = 4

\* the part of C1 the code keeps: the same for an end bound below the largest
\* integer
LoopRunsBodyOncePerValueBelowMaxInt ==
    (phase \in {"run", "done"} /\ SimpleLoop(interp) /\ interp.Lines[1].End.Value < MaxInt) =>
       /\ interp.PC <= 3 =>
             IsPrefix(out, Printed(interp.Lines[1].Start.Value, interp.Lines[1].End.Value))
       /\ LoopLeft =>
             /\ out = Printed(interp.Lines[1].Start.Value, interp.Lines[1].End.Value)
             /\ interp.Fors = <<>>

\* the statement s is a GOSUB or an IF that holds one
RECURSIVE HoldsGosub(_)
HoldsGosub(s) ==
    \/ s.type = "Gosub"
    \/ /\ s.type = "If"
       /\ \/ HoldsGosub(s.Body)
          \/ s.Else # Nil /\ HoldsGosub(s.Else.Body)

\* the text of 1 GOSUB 3 / 2 END / 3 PRINT "X" / 4 RETURN
GosubExample ==
    <<"1">> \o GOSUB3 \o <<"\n", "2">> \o ENDKW \o <<"\n", "3">> \o PRINTX \o
    <<"\n", "4">> \o RETURNKW \o <<"\n">>

\* C2: a GOSUB that succeeds pushes the counter already advanced past its
\* line and jumps to its target; a RETURN that succeeds pops the top entry
\* and continues there; every entry of the call stack is the index of the
\* statement stored right after a line holding a GOSUB, so the RETURN that
\* matches a GOSUB continues right after the GOSUB line with the stack as
\* deep as before it; and the program 1 GOSUB 3 / 2 END / 3 PRINT "X" /
\* 4 RETURN ends without error having printed X once, halted by line 2.
C2_GosubPushesReturnPops ==
    /\ phase \in {"run", "done"} =>
          \A k \in 1..Len(interp.Subs) :
             /\ interp.Subs[k] \in 1..Len(interp.Lines)
             /\ HoldsGosub(interp.Lines[interp.Subs[k]])
    /\ (Stepped /\ last.leaf.type = "Gosub" /\ last.err = Nil) =>
          /\ interp.Subs = Append(last.pre.Subs, last.pre.PC + 1)
          /\ interp.PC = last.pre.Locs[last.leaf.Location.Value]
    /\ (Stepped /\ last.leaf.type = "Return" /\ last.err = Nil) =>
          /\ interp.PC = last.pre.Subs[Len(last.pre.Subs)]
          /\ interp.Subs = SubSeq(last.pre.Subs, 1, Len(last.pre.Subs) - 1)
    /\ (phase = "done" /\ parseSrc = GosubExample) =>
          /\ rerr = Nil
          /\ out = <<"X">>
          /\ interp.Halt
          /\ interp.Subs = <<>>
          /\ last.leaf.type = "End"
          /\ last.leaf.Label.Value = 2

\* C2 witness: in that program the RETURN of line 4 has just run after the
\* PRINT, the counter is back at line 2 and the call stack is empty again
C2_Witness ==
    /\ parseSrc = GosubExample
    /\ Stepped
    /\ last.leaf.type = "Return"
    /\ last.err = Nil
    /\ out = <<"X">>
    /\ interp.PC = 1
    /\ interp.Subs = <<>>

\* the labels carried by the statement s and by the statements inside it
RECURSIVE LabelsIn(_)
LabelsIn(s) ==
    IF s.type = "If"
    THEN <<s.Label.Value>> \o LabelsIn(s.Body) \o
         (IF s.Else = Nil THEN <<>> ELSE <<s.Else.Label.Value>> \o LabelsIn(s.Else.Body))
    ELSE <<s.Label.Value>>

\* the labels of the whole program, one entry per statement
RECURSIVE LabelsOf(_)
LabelsOf(lines) == IF lines = <<>> THEN <<>> ELSE LabelsIn(Head(lines)) \o LabelsOf(Tail(lines))

\* the label L is carried by exactly one statement of the program
CarriedOnce(lines, L) ==
    Cardinality({k \in 1..Len(LabelsOf(lines)) : LabelsOf(lines)[k] = L}) = 1

\* C3: for every label L carried by exactly one statement of the program, a
\* top-level line or the body of an IF or ELSE, GOTO L or GOSUB L succeeds
\* and the statement run next is the one that carries L.
C3_JumpReachesEveryLabel ==
    (/\ Stepped
     /\ last.leaf.type \in {"Goto", "Gosub"}
     /\ CarriedOnce(interp.Lines, last.leaf.Location.Value)) =>
        /\ last.err = Nil
        /\ interp.PC < Len(interp.Lines)
        /\ \E k \in 1..Len(LabelsIn(interp.Lines[interp.PC + 1])) :
              LabelsIn(interp.Lines[interp.PC + 1])[k] = last.leaf.Location.Value

\* the part of C3 the code keeps: the same for the label of a top-level line
JumpReachesTopLevelLabel ==
    (/\ Stepped
     /\ last.leaf.type \in {"Goto", "Gosub"}
     /\ CarriedOnce(interp.Lines, last.leaf.Location.Value)
     /\ \E k \in 1..Len(interp.Lines) :
           interp.Lines[k].Label.Value = last.leaf.Location.Value) =>
        /\ last.err = Nil
        /\ interp.PC < Len(interp.Lines)
        /\ interp.Lines[interp.PC + 1].Label.Value = last.leaf.Location.Value

\* the variables the expression e refers to
RECURSIVE ExprVars(_)
ExprVars(e) ==
    CASE e.type = "Binary" -> ExprVars(e.X) \cup ExprVars(e.Y)
      [] e.type = "Paren" -> ExprVars(e.X)
      [] e.type = "Variable" -> {e.Name}
      [] OTHER -> {}

\* e refers to a variable that has no binding among the names bound
Unbound(e, bound) == ExprVars(e) \ bound # {}

\* running the statement s in the Interpreter ip meets a fatal condition: a
\* jump to a label absent from the label map, a RETURN with the call stack
\* empty, a NEXT with the loop stack empty, an expression with an unbound
\* variable (FOR binds its variable before it evaluates the end bound)
Fatal(s, ip) ==
    CASE s.type \in {"Goto", "Gosub"} -> s.Location.Value \notin DOMAIN ip.Locs
      [] s.type = "Return" -> ip.Subs = <<>>
      [] s.type = "Next" -> ip.Fors = <<>>
      [] s.type = "Let" -> Unbound(s.Value, DOMAIN ip.Vars)
      [] s.type = "If" -> Unbound(s.Cond, DOMAIN ip.Vars)
      [] s.type = "For" -> \/ Unbound(s.Start, DOMAIN ip.Vars)
                           \/ Unbound(s.End, DOMAIN ip.Vars \cup {s.Var.Name})
      [] s.type = "Print" -> \E k \in 1..Len(s.Args) :
                                /\ s.Args[k].type \in {"Binary", "Paren", "Variable"}
                                /\ Unbound(s.Args[k], DOMAIN ip.Vars)
      [] OTHER -> FALSE

C5_ErrorLeavesNoMutation ==
    (Stepped /\ last.err # Nil) =>
       /\ interp.Vars = last.pre.Vars
       /\ interp.Subs = last.pre.Subs
       /\ interp.Fors = last.pre.Fors

\* the part of C5 the code keeps: a LET, PRINT, GOTO, RETURN or NEXT that
\* returns an error has changed none of them
ErrorLeavesNoMutationButGosubAndFor ==
    (Stepped /\ last.err # Nil /\ last.leaf.type \notin {"Gosub", "For"}) =>
       /\ interp.Vars = last.pre.Vars
       /\ interp.Subs = last.pre.Subs
       /\ interp.Fors = last.pre.Fors

\* the last Step ran a NEXT that jumped back: the loop stack is as deep as
\* before it
JumpedBack ==
    /\ Stepped
    /\ last.leaf.type = "Next"
    /\ last.err = Nil
    /\ Len(interp.Fors) = Len(last.pre.Fors)

\* C12: the frame pushed by a FOR run by Step stores the index of the FOR
\* statement itself, and when NEXT jumps back the statement run next is the
\* FOR statement.
C12_ForFrameStoresOwnIndex ==
    /\ (Stepped /\ last.leaf.type = "For" /\ last.err = Nil) =>
          interp.Fors[Len(interp.Fors)].Block = last.pre.PC
    /\ JumpedBack =>
          /\ interp.PC < Len(interp.Lines)
          /\ interp.Lines[interp.PC + 1].type = "For"

\* C12 as the code has it: the frame pushed by a FOR run by Step stores the
\* index of the statement after the FOR, with the FOR's variable; every frame
\* of the loop stack is of that kind; when NEXT jumps back the counter is the
\* index stored in the top frame, the loop stack is the one before it (no
\* frame is pushed, the FOR is not run again) and the variable NEXT names,
\* when it is the frame's, is one more than before (not the start value).
ForFrameStoresFollowingIndex ==
    /\ phase \in {"run", "done"} =>
          \A k \in 1..Len(interp.Fors) :
             /\ interp.Fors[k].Block \in 1..Len(interp.Lines)
             /\ interp.Lines[interp.Fors[k].Block].type = "For"
             /\ interp.Lines[interp.Fors[k].Block].Var.Name = interp.Fors[k].Var
    /\ (Stepped /\ last.leaf.type = "For" /\ last.err = Nil) =>
          /\ Len(interp.Fors) = Len(last.pre.Fors) + 1
          /\ SubSeq(interp.Fors, 1, Len(last.pre.Fors)) = last.pre.Fors
          /\ interp.Fors[Len(interp.Fors)].Block = last.pre.PC + 1
          /\ interp.Fors[Len(interp.Fors)].Var = last.leaf.Var.Name
          /\ interp.PC = last.pre.PC + 1
    /\ JumpedBack =>
          /\ interp.Fors = last.pre.Fors
          /\ interp.PC = interp.Fors[Len(interp.Fors)].Block
          /\ interp.Lines[interp.PC].type = "For"
          /\ last.leaf.Var.Name = interp.Fors[Len(interp.Fors)].Var =>
                interp.Vars[last.leaf.Var.Name] =
                   Wrap(MapGet(last.pre.Vars, last.leaf.Var.Name) + 1)

\* C12 witness: in 1 FOR I=1 TO 3 / 2 PRINT I / 3 NEXT I / 4 END the NEXT has
\* jumped back for the first time, to the PRINT of line 2, with I = 2
C12_Witness ==
    /\ parseSrc = LoopExample
    /\ JumpedBack
    /\ interp.PC = 1
    /\ interp.Lines[interp.PC + 1].type = "Print"
    /\ interp.Vars[<<"I">>] = 2
    /\ Len(interp.Fors) = 1
    /\ out = <<"1">>

\* the last Step ran a NEXT with the loop stack not empty
NextOnFrame ==
    /\ Stepped
    /\ last.leaf.type = "Next"
    /\ last.pre.Fors # <<>>

\* the top frame of the loop stack before the last Step
TopFrame == last.pre.Fors[Len(last.pre.Fors)]

\* C13: NEXT with the loop stack not empty returns no error; the variable it
\* names is incremented when it is the top frame's, and no binding changes
\* when it is another one; then the value bound to the top frame's variable
\* decides: when it is <= the frame's end bound the counter becomes the index
\* stored in the frame and the loop stack stays, otherwise the frame is
\* popped and the counter is the one after the NEXT.
C13_NextComparesFrameVariable ==
    NextOnFrame =>
       /\ last.err = Nil
       /\ interp.Vars = IF last.leaf.Var.Name = TopFrame.Var
                        THEN MapPut(last.pre.Vars, TopFrame.Var,
                                    Wrap(MapGet(last.pre.Vars, TopFrame.Var) + 1))
                        ELSE last.pre.Vars
       /\ IF MapGet(interp.Vars, TopFrame.Var) <= TopFrame.To
          THEN /\ interp.PC = TopFrame.Block
               /\ interp.Fors = last.pre.Fors
          ELSE /\ interp.PC = last.pre.PC + 1
               /\ interp.Fors = SubSeq(last.pre.Fors, 1, Len(last.pre.Fors) - 1)

\* what the code does instead: the value compared with the frame's end bound
\* is the one bound to the variable the NEXT names (0 when it has none)
NextComparesOwnVariable ==
    NextOnFrame =>
       /\ last.err = Nil
       /\ interp.Vars = IF last.leaf.Var.Name = TopFrame.Var
                        THEN MapPut(last.pre.Vars, TopFrame.Var,
                                    Wrap(MapGet(last.pre.Vars, TopFrame.Var) + 1))
                        ELSE last.pre.Vars
       /\ IF MapGet(interp.Vars, last.leaf.Var.Name) <= TopFrame.To
          THEN /\ interp.PC = TopFrame.Block
               /\ interp.Fors = last.pre.Fors
          ELSE /\ interp.PC = last.pre.PC + 1
               /\ interp.Fors = SubSeq(last.pre.Fors, 1, Len(last.pre.Fors) - 1)

\* the text of 1 PRINT "A" / 1 PRINT "X"
DupExample == <<"1">> \o PRINTA \o <<"\n", "1">> \o PRINTX \o <<"\n">>

\* C14: once Run has built the label map, the label of every stored line i is
\* sent to i by the map, so that no two stored lines carry the same label;
\* and the program 1 PRINT "A" / 1 PRINT "X", where the second line defines
\* label 1 again, is the one line 1 PRINT "X" and prints X only.
C14_LabelMapSendsEveryLineToItself ==
    /\ phase = "run" =>
          \A i \in 1..Len(interp.Lines) :
             /\ interp.Lines[i].Label.Value \in DOMAIN interp.Locs
             /\ interp.Locs[interp.Lines[i].Label.Value] = i - 1
    /\ (phase = "done" /\ parseSrc = DupExample) =>
          /\ Len(interp.Lines) = 1
          /\ out = <<"X">>

\* what the code does instead: every line parsed is stored, and the map sends
\* a label to the last stored line that carries it
LabelMapSendsLabelToLastLine ==
    phase = "run" =>
       /\ Len(interp.Lines) = NumLines(parseSrc)
       /\ \A i \in 1..Len(interp.Lines) :
             /\ interp.Lines[i].Label.Value \in DOMAIN interp.Locs
             /\ interp.Locs[interp.Lines[i].Label.Value] >= i - 1
             /\ interp.Lines[interp.Locs[interp.Lines[i].Label.Value] + 1].Label.Value =
                   interp.Lines[i].Label.Value

\* the expression e holds a division or a remainder by the number 0
RECURSIVE DividesByZero(_)
DividesByZero(e) ==
    CASE e.type = "Binary" ->
           \/ e.Op.Type \in {"SLASH", "MOD"} /\ e.Y.type = "Number" /\ e.Y.Value = 0
           \/ DividesByZero(e.X)
           \/ DividesByZero(e.Y)
      [] e.type = "Paren" -> DividesByZero(e.X)
      [] OTHER -> FALSE

\* the statement s evaluates an expression that divides by zero
StmtDividesByZero(s) ==
    CASE s.type = "Let" -> DividesByZero(s.Value)
      [] s.type = "For" -> DividesByZero(s.Start) \/ DividesByZero(s.End)
      [] s.type = "Peek" -> DividesByZero(s.Addr)
      [] s.type = "Poke" -> DividesByZero(s.Addr) \/ DividesByZero(s.Value)
      [] s.type = "If" -> DividesByZero(s.Cond)
      [] s.type = "Print" -> \E k \in 1..Len(s.Args) :
                                /\ s.Args[k].type \in {"Binary", "Paren"}
                                /\ DividesByZero(s.Args[k])
      [] OTHER -> FALSE

\* C15: a statement that divides by zero makes Step return an error (the
\* call does not end in a host-level fault), Run ends with that error, and
\* the statement has bound no variable and poked no memory cell.
C15_DivideByZeroReturnsError ==
    /\ phase # "crashed"
    /\ (Stepped /\ StmtDividesByZero(last.leaf)) =>
          /\ last.err # Nil
          /\ rerr = last.err
          /\ phase = "done"
          /\ interp.Vars = last.pre.Vars
          /\ interp.Mach.Values = last.pre.Mach.Values

\* the part of C15 the code keeps: the error is returned and nothing is
\* poked; no variable is bound by a statement other than FOR
DivideByZeroReturnsErrorForBindsFirst ==
    /\ phase # "crashed"
    /\ (Stepped /\ StmtDividesByZero(last.leaf)) =>
          /\ last.err # Nil
          /\ last.err.kind = "runtime"
          /\ rerr = last.err
          /\ phase = "done"
          /\ interp.Mach.Values = last.pre.Mach.Values
          /\ last.leaf.type # "For" => interp.Vars = last.pre.Vars

\* the program built starts FOR I=a TO b / PRINT I / NEXT I with numbers a > b
DownLoop(ip) ==
    /\ Len(ip.Lines) >= 3
    /\ ip.Lines[1].type = "For"
    /\ ip.Lines[1].Var.Name = <<"I">>
    /\ ip.Lines[1].Start.type = "Number"
    /\ ip.Lines[1].End.type = "Number"
    /\ ip.Lines[1].Start.Value > ip.Lines[1].End.Value
    /\ ip.Lines[2].type = "Print"
    /\ Len(ip.Lines[2].Args) = 1
    /\ ip.Lines[2].Args[1].type = "Variable"
    /\ ip.Lines[2].Args[1].Name = <<"I">>
    /\ ip.Lines[3].type = "Next"
    /\ ip.Lines[3].Var.Name = <<"I">>

\* C20: for a loop FOR I=a TO b / PRINT I / NEXT I with a > b the FOR binds
\* I to a and pushes a frame without testing the bounds, the body runs exactly
\* once, with I = a, and the NEXT increments I, pops the frame and falls
\* through to the statement after it, the loop stack as deep as before the
\* FOR (empty).
C20_DownLoopRunsBodyOnce ==
    (phase \in {"run", "done"} /\ DownLoop(interp)) =>
       /\ (Stepped /\ last.leaf = interp.Lines[1] /\ last.pre.PC = 0) =>
             /\ last.err = Nil
             /\ interp.Vars[<<"I">>] = interp.Lines[1].Start.Value
             /\ Len(interp.Fors) = 1
             /\ interp.PC = 1
       /\ interp.PC <= 3 => IsPrefix(out, FormatInt(interp.Lines[1].Start.Value))
       /\ (Stepped /\ last.leaf = interp.Lines[3] /\ last.pre.PC = 2) =>
             /\ last.err = Nil
             /\ out = FormatInt(interp.Lines[1].Start.Value)
             /\ interp.Vars[<<"I">>] = Wrap(interp.Lines[1].Start.Value + 1)
             /\ interp.Fors = <<>>
             /\ interp.PC = 3

\* the part of C20 the code keeps: the same for a start value below the
\* largest integer
DownLoopRunsBodyOnceBelowMaxInt ==
    (/\ phase \in {"run", "done"}
     /\ DownLoop(interp)
     /\ interp.Lines[1].Start.Value < MaxInt) =>
       /\ interp.PC <= 3 => IsPrefix(out, FormatInt(interp.Lines[1].Start.Value))
       /\ (Stepped /\ last.leaf = interp.Lines[3] /\ last.pre.PC = 2) =>
             /\ last.err = Nil
             /\ out = FormatInt(interp.Lines[1].Start.Value)
             /\ interp.Vars[<<"I">>] = interp.Lines[1].Start.Value + 1
             /\ interp.Fors = <<>>
             /\ interp.PC = 3

\* the text of 1 IF 1 THEN / 2 END / 3 PRINT "X"
NestedEndExample ==
    <<"1">> \o IFTHEN \o <<"\n", "2">> \o ENDKW \o <<"\n", "3">> \o PRINTX \o <<"\n">>

\* C11: an END that runs, also as the body of an IF, sets the halt flag; the
\* flag is set only by an END or by a Step that finds the counter past the
\* last line; a Step called with the flag set runs no statement, returns no
\* error and leaves the whole Interpreter (counter, bindings, call stack,
\* loop stack, memory, output) as it was, so that the same holds of every
\* Step after it; and a Run that ends with the flag set returns no error.
C11_HaltedStepRunsNothing ==
    /\ phase # "crashed"
    /\ (last # Nil /\ last.op = "step" /\ last.leaf # Nil /\ last.leaf.type = "End") =>
          /\ last.err = Nil
          /\ interp.Halt
    /\ (phase \in {"run", "done"} /\ interp.Halt) =>
          \/ interp.PC >= Len(interp.Lines)
          \/ last # Nil /\ last.leaf # Nil /\ last.leaf.type = "End"
          \/ last # Nil /\ last.op = "halted"
    /\ (last # Nil /\ last.op = "halted") =>
          /\ last.pre.Halt
          /\ last.leaf = Nil
          /\ last.err = Nil
          /\ interp = last.pre
    /\ (phase = "done" /\ interp.Halt) => rerr = Nil

\* C11 witness: in 1 IF 1 THEN / 2 END / 3 PRINT "X" the END inside the IF has
\* halted the run before line 3, and a further Step has been called
C11_Witness ==
    /\ parseSrc = NestedEndExample
    /\ last # Nil
    /\ last.op = "halted"
    /\ interp.Halt
    /\ interp.PC = 1
    /\ Len(interp.Lines) = 2
    /\ out = <<>>

----------------------------------------------------------------------------
(* Claims about the REPL *)

\* the statements entered so far: what the Line calls that succeeded returned
Entered == SelectSeq(rets, LAMBDA r : r.st = "ok")

\* the statement entered last with the label L
LastEntered(L) ==
    Entered[CHOOSE k \in 1..Len(Entered) :
               /\ Entered[k].v.Label.Value = L
               /\ \A j \in (k + 1)..Len(Entered) : Entered[j].v.Label.Value # L].v

\* C6: after any sequence of lines entered in the REPL the stored program
\* holds at most one statement per label, every label entered is stored, and
\* the statement stored for a label is the one entered last with that label.
C6_OneLinePerLabelLatestWins ==
    phase \in {"read", "replRun", "done"} =>
       /\ \A i \in 1..Len(interp.Lines) : \A j \in 1..Len(interp.Lines) :
             i # j => interp.Lines[i].Label.Value # interp.Lines[j].Label.Value
       /\ \A k \in 1..Len(Entered) : \E i \in 1..Len(interp.Lines) :
             interp.Lines[i].Label.Value = Entered[k].v.Label.Value
       /\ \A i \in 1..Len(interp.Lines) :
             interp.Lines[i] = LastEntered(interp.Lines[i].Label.Value)

\* C6 witness: 1 PRINT "A" and then 1 PRINT "X" have been entered, and the
\* stored program is the one line 1 PRINT "X"
C6_Witness ==
    /\ Len(Entered) = 2
    /\ Entered[1].v.type = "Print" /\ Entered[1].v.Label.Value = 1
    /\ Entered[1].v.Args[1].Value = <<"A">>
    /\ Entered[2].v.type = "Print" /\ Entered[2].v.Label.Value = 1
    /\ Entered[2].v.Args[1].Value = <<"X">>
    /\ interp.Lines = <<Entered[2].v>>
    /\ out = <<">", " ", "A", ">", " ", "X">>

\* C7: entering a statement whose label matches a stored line replaces that
\* line in place: the stored program is as long as before, the new statement
\* is at the index of the old one, and every other line is where it was.
C7_ReplacesInPlace ==
    (/\ last # Nil
     /\ last.op = "enter"
     /\ last.leaf.Label.Value \in DOMAIN last.pre.Locs) =>
        /\ Len(interp.Lines) = Len(last.pre.Lines)
        /\ \A i \in 1..Len(last.pre.Lines) :
              interp.Lines[i] = IF last.pre.Lines[i].Label.Value = last.leaf.Label.Value
                                THEN last.leaf
                                ELSE last.pre.Lines[i]

\* what the code does instead: the old line is taken out, the lines after it
\* move down by one, and the new statement is stored last
ReplacesByRemoveAndAppend ==
    (/\ last # Nil
     /\ last.op = "enter"
     /\ last.leaf.Label.Value \in DOMAIN last.pre.Locs) =>
        /\ Len(interp.Lines) = Len(last.pre.Lines)
        /\ interp.Lines[Len(interp.Lines)] = last.leaf
        /\ \A i \in 1..(Len(last.pre.Lines) - 1) :
              interp.Lines[i] = IF i <= last.pre.Locs[last.leaf.Label.Value]
                                THEN last.pre.Lines[i]
                                ELSE last.pre.Lines[i + 1]

\* the last stored line of ip is a GOTO whose target L is the label of a
\* stored line, and the stored lines from L up to the GOTO are LET and PRINT
\* statements only
EndsInGotoLoop(ip) ==
    /\ ip.Lines # <<>>
    /\ ip.Lines[Len(ip.Lines)].type = "Goto"
    /\ ip.Lines[Len(ip.Lines)].Location.Value \in DOMAIN ip.Locs
    /\ \A k \in (ip.Locs[ip.Lines[Len(ip.Lines)].Location.Value] + 1)..(Len(ip.Lines) - 1) :
          ip.Lines[k].type \in {"Let", "Print"}

\* where the GOTO that ends the program of ip jumps to
LoopEntry(ip) == ip.Locs[ip.Lines[Len(ip.Lines)].Location.Value]

\* C19: a GOTO entered in the REPL is stored as the last line and a run is
\* started at it with the halt flag cleared; when its target L is a stored
\* line and only LET and PRINT lines lie from L to the end, the run never
\* halts: the halt flag stays cleared and the counter stays between L and the
\* last line, the statement run when the counter is at the last line is that
\* same GOTO, which jumps to L again, and the run goes back to the prompt only
\* when a statement returns an error.
C19_ReplGotoRunNeverHalts ==
    /\ (last # Nil /\ last.op = "enter" /\ last.leaf.type = "Goto") =>
          /\ phase = "replRun"
          /\ interp.Lines[Len(interp.Lines)] = last.leaf
          /\ interp.PC = Len(interp.Lines) - 1
          /\ ~interp.Halt
    /\ (phase = "replRun" /\ EndsInGotoLoop(interp)) =>
          /\ ~interp.Halt
          /\ interp.PC >= LoopEntry(interp)
          /\ interp.PC <= Len(interp.Lines) - 1
          /\ (last.op = "step" /\ last.pre.PC = Len(interp.Lines) - 1) =>
                /\ last.leaf = interp.Lines[Len(interp.Lines)]
                /\ last.err = Nil
                /\ interp.PC = LoopEntry(interp)
    /\ (phase = "read" /\ last # Nil /\ last.op = "step" /\ EndsInGotoLoop(last.pre)) =>
          /\ last.err # Nil
          /\ last.leaf.type \in {"Let", "Print"}

\* C19 witness: 3 PRINT "A" and then 1 GOTO 3 have been entered; the run has
\* executed the GOTO, the PRINT, and the same GOTO a second time
C19_Witness ==
    /\ phase = "replRun"
    /\ EndsInGotoLoop(interp)
    /\ Len(interp.Lines) = 2
    /\ interp.Lines[2].Label.Value = 1
    /\ last.op = "step"
    /\ last.leaf = interp.Lines[2]
    /\ interp.PC = 0
    /\ out = <<">", " ", "A", ">", " ", "A">>

=============================================================================
